---- MODULE Spec2Model ----
(***************************************************************************)
(* Event intake and delayed-action scheduling of the webhook relay          *)
(* (src/index.js): signed webhook handlers, the persisted lock table, the   *)
(* idempotency ledgers, the debounce queue and the review scheduler.        *)
(*                                                                          *)
(* The server is one Node.js process: a handler or a timer callback runs    *)
(* without interruption up to its next `await`; the continuation after an   *)
(* await is a later step.  An action of this module is one such run; the    *)
(* suspended continuations are the elements of the bag `tasks`.             *)
(* Files under dataFiles survive a process restart, module-level variables  *)
(* and suspended continuations do not.                                      *)
(***************************************************************************)
EXTENDS Integers, Sequences, FiniteSets, Bags, TLC

(* ------------------------------ bounds --------------------------------- *)
\* entity keys (fulfillment ids, refund ids, order ids, cart tokens): 1..NumKeys
NumKeys == 2
\* inbound webhook requests handled in one behaviour
MaxRequests == 3
\* process restarts in one behaviour
MaxCrashes == 1
\* delivered events captured in one behaviour of the review scheduler
MaxEvents == 2
\* collaborator sends issued in one behaviour of the review scheduler
MaxSends == 3
\* the clock runs from 1 to MaxTime
MaxTime == 3
\* the debounce evaluator runs until the clock reads MaxPeriods
MaxPeriods == 4
\* appends to an audit log that fail in one behaviour
MaxLost == 2
\* SEND_MESSAGE_DELAY in evaluator periods (CHECK_INTERVAL): the 60 periods of
\* the source, scaled
DebounceDelay == 2
\* getReviewDelayMs() in clock ticks (the configured REVIEW_DELAY_MS, scaled)
ReviewDelay == 1

Keys == 1..NumKeys

(* --------------------------- program state ----------------------------- *)
VARIABLES
  env,                 \* process.env: the switches the handlers read
  locks,               \* in-process-locks.json: the ids that have an entry
  deliveries,          \* processed-deliveries.json
  storeCreditRefunds,  \* processed-store-credit-refunds.json
  reviewRecords,       \* delivery-review-fulfillments.json
  timers,              \* __reviewTimersByFulfillmentId
  schedRunning,        \* __reviewSchedulerRunning
  sweep,               \* the suspended runReviewSchedulerOnce, if any
  tasks,               \* bag of suspended async continuations
  processedOrders,     \* the Set processedOrders, and processed-orders.json
  processedFulfillments,  \* the Set processedFulfillments, and its file
  processedCancellations, \* global.__processedCancellations
  processedRefunds,    \* global.__processedRefunds
  checkouts,           \* debounced-checkouts.json
  verified,            \* the verifyCheckout calls made, per cart token
  observed,            \* per cart token: payloads received, the last one, its time
  messageQueue,        \* messageQueue: the cart tokens of the queued checkouts
  isSending,           \* isSending
  queuedAbandonedCartTokens,  \* queuedAbandonedCartTokens
  processingPayments,  \* processingPayments
  ops,                 \* the runs of the ops scripts (processes of their own)
  auditLost,           \* entries that appendJsonlLog failed to append so far
  disk,                \* one persisted file as text, under its loader
  now,                 \* Date.now()
  sendLog,             \* what the collaborator received: category -> key -> outcomes
  resp,                \* the HTTP exchange handled last
  nreq,                \* requests handled so far
  crashes              \* restarts so far

\* the files of the signed-webhook and review paths
files == <<deliveries, storeCreditRefunds, reviewRecords>>
\* the in-memory state of the review scheduler
sched == <<timers, schedRunning, sweep>>
\* the in-memory state of checkout verification and of the send queue
queue == <<messageQueue, isSending, queuedAbandonedCartTokens,
           processingPayments>>
\* the state of the unsigned endpoints and of the debounce queue
other == <<processedOrders, processedFulfillments, processedCancellations,
           processedRefunds, checkouts, verified, observed, queue, ops>>
\* bookkeeping of the requests handled
http == <<resp, nreq>>

vars == <<env, locks, deliveries, storeCreditRefunds, reviewRecords, timers,
          schedRunning, sweep, tasks, processedOrders, processedFulfillments,
          processedCancellations, processedRefunds, checkouts, verified,
          observed, messageQueue, isSending, queuedAbandonedCartTokens,
          processingPayments, ops, auditLost, disk, now, sendLog, resp, nreq,
          crashes>>

\* a record of delivery-review-fulfillments.json that is absent
NoRec == [present |-> FALSE, deliveredAtMs |-> 0, reviewMessageSent |-> FALSE,
          digitsOk |-> FALSE]
NoTimer == 0
EmptyRecords == [f \in Keys |-> NoRec]
IdleSweep == [state |-> "idle", rest |-> <<>>]

Categories == {"delivery", "store_credit_refund", "review", "order_confirmation",
               "fulfillment_creation", "order_cancellation", "refund_processed",
               "abandoned_checkout"}

(* ------------------------------ lock table ----------------------------- *)
\* lockId(id): the value it returns
LockIdAlwaysTrue(lk, id) == TRUE
LockIdResult(lk, id) == id \notin lk
\* lockId(id): the lock file it leaves
LockIdLocks(lk, id) == IF id \in lk THEN lk ELSE lk \cup {id}
\* unlockId(id): the lock file it leaves
UnlockReleasesAll(lk, id) == {}
UnlockIdLocks(lk, id) == lk \ {id}

(* ------------------------------ ledgers -------------------------------- *)
\* hasDeliveryBeenNotified / hasStoreCreditRefundBeenNotified: read the file
HasNeverBeenNotified(file, key) == FALSE
HasBeenNotified(file, key) == key \in file
\* markDeliveryNotified / markStoreCreditRefundNotified: load, add, write
MarkOverwrites(file, key) == {key}
MarkNotified(file, key) == file \cup {key}

(* --------------------------- webhook requests -------------------------- *)
Secret == "secret"
\* crypto.createHmac("sha256", secret).update(body).digest("base64")
Digest(secret, body) == <<secret, body>>

\* updated_at = 0: the payload carries no parseable date, and the time of
\* receipt is taken; dated payloads are exercised under SpecReview
FulfillmentBodies ==
  [shipment_status : {"delivered", "in_transit"}, id : Keys, updated_at : {0}]
RefundBodies ==
  [store_credit : BOOLEAN, id : Keys, order_id : BOOLEAN]

\* a body that differs from b: what a signature made for another body signs
OtherFulfillmentBody(b) ==
  [b EXCEPT !.shipment_status =
     IF b.shipment_status = "delivered" THEN "in_transit" ELSE "delivered"]
OtherRefundBody(b) == [b EXCEPT !.store_credit = ~b.store_credit]

\* the X-Shopify-Hmac-Sha256 headers tried for body b (NoHeader: none sent)
NoHeader == <<>>
HmacHeaders(b, b2) == {NoHeader, Digest(Secret, b), Digest(Secret, b2)}

Topics(own) == {"", own, "orders/create"}
ShopDomains == {"", "shop", "elsewhere"}
SHOPIFY_DOMAIN == "shop"

\* verifyShopifyWebhookHmac(req)
VerifyAcceptsAll(header, body) == TRUE
VerifyShopifyWebhookHmac(header, body) ==
  IF header = NoHeader THEN FALSE ELSE header = Digest(Secret, body)

(* ------------------------------- tasks --------------------------------- *)
\* a suspended continuation: what it is, the key it works on, and the values
\* it captured before suspending
Task(kind, key, at, snap, rec, bySweep) ==
  [kind |-> kind, key |-> key, at |-> at, snap |-> snap, rec |-> rec,
   bySweep |-> bySweep]
SimpleTask(kind, key) == Task(kind, key, 0, EmptyRecords, NoRec, FALSE)
AddTask(bag, t) == bag (+) SetToBag({t})
DropTask(bag, t) == bag (-) SetToBag({t})
\* how many suspended continuations of a kind there are (for a key)
RECURSIVE SumCopies(_, _)
SumCopies(bag, S) ==
  IF S = {} THEN 0
  ELSE LET t == CHOOSE x \in S : TRUE
       IN CopiesIn(t, bag) + SumCopies(bag, S \ {t})
KindCount(bag, kind) == SumCopies(bag, {t \in BagToSet(bag) : t.kind = kind})
TaskCount(bag, kind, key) ==
  SumCopies(bag, {t \in BagToSet(bag) : t.kind = kind /\ t.key = key})

Append1(log, cat, key, outcome) ==
  [log EXCEPT ![cat][key] = Append(@, outcome)]

(* ----------------- review capture (shared by both paths) --------------- *)
\* upsertDeliveryReviewRecordFromFulfillment up to `await
\* resolveDeliveryRecipient`: deliveredAtMs is fixed from the payload
\* (updated_at = 0: no parseable date, the time of receipt is taken)
DeliveredAtMs(updatedAt, receivedAtMs) ==
  IF updatedAt # 0 THEN updatedAt ELSE receivedAtMs
UpsertStart(bag, fulfillmentId, updatedAt, receivedAtMs) ==
  AddTask(bag, Task("capture", fulfillmentId,
                    DeliveredAtMs(updatedAt, receivedAtMs), EmptyRecords, NoRec,
                    FALSE))

(* ------------------- POST /webhook/fulfillments/update ----------------- *)
\* the exchange: what the request carried (signed: its signature header is the
\* HMAC of its raw body; topicOk, shopOk: its topic header, its shop header,
\* is absent or the expected one) and res.status(status).send(...)
Headers(own, topic, shop, hmac, body) ==
  [signed |-> hmac = Digest(Secret, body),
   topicOk |-> topic \in {"", own},
   shopOk |-> shop \in {"", "shop"}]
\* the endpoints that read no header
Unsigned == [signed |-> FALSE, topicOk |-> TRUE, shopOk |-> TRUE]
RespondLater(status, hdr) ==
  resp' = [status |-> 0, signed |-> hdr.signed, topicOk |-> hdr.topicOk,
           shopOk |-> hdr.shopOk]
Respond(status, hdr) ==
  resp' = [status |-> status, signed |-> hdr.signed, topicOk |-> hdr.topicOk,
           shopOk |-> hdr.shopOk]

\* the topic test of both handlers: a topic header that names another topic
TopicNeverMismatch(topic, own) == FALSE
TopicMismatch(topic, own) == topic # "" /\ topic # own

\* appendJsonlLog(file, entry): whether the call throws when appendFileSync
\* fails (the catch block logs to the console and returns)
AppendPropagates(fails) == fails
AppendThrows(fails) == FALSE
\* appendJsonlLog(file, entry): the entry is appended, or lost when
\* appendFileSync fails
Appended(fails) ==
  /\ fails => auditLost < MaxLost
  /\ auditLost' = IF fails THEN auditLost + 1 ELSE auditLost

\* the id a handler locks: the category, a colon, the idempotency key
LockKeyOfDelivery(category, key) == <<"delivery", key>>
LockKey(category, key) == <<category, key>>

FulfillmentsRouted(body, hdr) ==
  LET key == body.id
      lockKey == LockKey("delivery", key)
      captured == UpsertStart(tasks, key, body.updated_at, now)
  IN IF HasBeenNotified(deliveries, key)
       THEN /\ Respond(200, hdr)
            /\ tasks' = captured
            /\ UNCHANGED locks
     ELSE IF ~LockIdResult(locks, lockKey)
       THEN /\ Respond(200, hdr)
            /\ tasks' = captured
            /\ locks' = LockIdLocks(locks, lockKey)
     ELSE /\ Respond(200, hdr)
          /\ locks' = LockIdLocks(locks, lockKey)
          /\ tasks' = AddTask(captured, SimpleTask("delivery_send", key))

\* `if (shipmentStatus !== "delivered") return;`
EveryStatusDelivered(body) == FALSE
NotDelivered(body) == body.shipment_status # "delivered"

\* the handler, with the fate of the entry it appends to the delivery log:
\* after the 200 on a wrong topic or shop, before the 401 on a bad signature,
\* and when the key is already notified or locked; a status other than
\* delivered and the start of a send append nothing
FulfillmentsUpdateLogged(topic, shop, hmac, body, appendFails) ==
  /\ nreq < MaxRequests
  /\ nreq' = nreq + 1
  /\ LET hdr == Headers("fulfillments/update", topic, shop, hmac, body) IN
     IF TopicMismatch(topic, "fulfillments/update")
       THEN /\ Respond(200, hdr) /\ UNCHANGED <<locks, tasks>>
            /\ Appended(appendFails)
     ELSE IF shop # "" /\ shop # SHOPIFY_DOMAIN
       THEN /\ Respond(200, hdr) /\ UNCHANGED <<locks, tasks>>
            /\ Appended(appendFails)
     ELSE IF ~env.allowUnverified /\ ~VerifyShopifyWebhookHmac(hmac, body)
       THEN /\ IF AppendThrows(appendFails) THEN RespondLater(401, hdr)
               ELSE Respond(401, hdr)
            /\ UNCHANGED <<locks, tasks>>
            /\ Appended(appendFails)
     ELSE IF NotDelivered(body)
       THEN /\ Respond(200, hdr) /\ UNCHANGED <<locks, tasks>>
            /\ ~appendFails /\ UNCHANGED auditLost
     ELSE /\ FulfillmentsRouted(body, hdr)
          /\ IF \/ HasBeenNotified(deliveries, body.id)
                \/ ~LockIdResult(locks, LockKey("delivery", body.id))
               THEN Appended(appendFails)
               ELSE ~appendFails /\ UNCHANGED auditLost
  /\ UNCHANGED <<env, disk, files, sched, other, now, sendLog, crashes>>

handleFulfillmentsUpdateWebhook(topic, shop, hmac, body) ==
  FulfillmentsUpdateLogged(topic, shop, hmac, body, FALSE)

\* `await send...Notification(...)` returns, so that the statement after it
\* (mark...Notified) runs, only when the send did not throw
ReturnsAlways(outcome) == TRUE
Returns(outcome) == outcome = "ok"

\* the continuation of the delivery task: sendDeliveryNotification returns or
\* throws (NO_VALID_PHONE before the send, or the provider's error)
DeliverySendLogged(t, outcome, appendFails) ==
  /\ BagIn(t, tasks) /\ t.kind = "delivery_send"
  /\ Appended(appendFails)
  /\ tasks' = DropTask(tasks, t)
  /\ sendLog' = IF outcome = "no_phone" THEN sendLog
                ELSE Append1(sendLog, "delivery", t.key, outcome)
  /\ deliveries' = IF Returns(outcome) THEN MarkNotified(deliveries, t.key)
                   ELSE deliveries
  /\ locks' = UnlockIdLocks(locks, LockKey("delivery", t.key))
  /\ UNCHANGED <<env, disk, storeCreditRefunds, reviewRecords, sched, other, now,
                 http, crashes>>

DeliverySendReturns(t, outcome) == DeliverySendLogged(t, outcome, FALSE)

(* --------------------- POST /webhook/refunds/create --------------------- *)
RefundsRouted(body, hdr) ==
  LET key == body.id
      lockKey == LockKey("store_credit_refund", key)
  IN IF HasBeenNotified(storeCreditRefunds, key)
       THEN Respond(200, hdr) /\ UNCHANGED <<locks, tasks>>
     ELSE IF ~LockIdResult(locks, lockKey)
       THEN /\ Respond(200, hdr)
            /\ locks' = LockIdLocks(locks, lockKey)
            /\ UNCHANGED tasks
     ELSE IF ~body.order_id
       \* order stays null: logged, and the finally block unlocks at once
       THEN /\ Respond(200, hdr)
            /\ locks' = UnlockIdLocks(LockIdLocks(locks, lockKey), lockKey)
            /\ UNCHANGED tasks
     ELSE /\ Respond(200, hdr)
          /\ locks' = LockIdLocks(locks, lockKey)
          /\ tasks' = AddTask(tasks, SimpleTask("refund_lookup", key))

handleRefundsCreateWebhook(topic, shop, hmac, body) ==
  /\ nreq < MaxRequests
  /\ nreq' = nreq + 1
  /\ LET hdr == Headers("refunds/create", topic, shop, hmac, body) IN
     IF TopicMismatch(topic, "refunds/create")
       THEN Respond(200, hdr) /\ UNCHANGED <<locks, tasks>>
     ELSE IF shop # "" /\ shop # SHOPIFY_DOMAIN
       THEN Respond(200, hdr) /\ UNCHANGED <<locks, tasks>>
     ELSE IF ~env.allowUnverified /\ ~VerifyShopifyWebhookHmac(hmac, body)
       THEN Respond(401, hdr) /\ UNCHANGED <<locks, tasks>>
     ELSE IF ~body.store_credit
       THEN Respond(200, hdr) /\ UNCHANGED <<locks, tasks>>
     ELSE RefundsRouted(body, hdr)
  /\ UNCHANGED <<env, auditLost, disk, files, sched, other, now, sendLog, crashes>>

\* client.get(orders/<id>) returns: no order, or an order (whose phone is
\* valid or not), after which sendStoreCreditRefundNotification is awaited
RefundLookupReturns(t, outcome) ==
  /\ BagIn(t, tasks) /\ t.kind = "refund_lookup"
  /\ IF outcome = "found"
       THEN /\ tasks' = AddTask(DropTask(tasks, t), SimpleTask("refund_send", t.key))
            /\ UNCHANGED locks
       ELSE /\ tasks' = DropTask(tasks, t)
            /\ locks' = UnlockIdLocks(locks, LockKey("store_credit_refund", t.key))
  /\ UNCHANGED <<env, auditLost, disk, files, sched, other, now, sendLog, http, crashes>>

RefundSendReturns(t, outcome) ==
  /\ BagIn(t, tasks) /\ t.kind = "refund_send"
  /\ tasks' = DropTask(tasks, t)
  /\ sendLog' = IF outcome = "no_phone" THEN sendLog
                ELSE Append1(sendLog, "store_credit_refund", t.key, outcome)
  /\ storeCreditRefunds' =
       IF Returns(outcome) THEN MarkNotified(storeCreditRefunds, t.key)
       ELSE storeCreditRefunds
  /\ locks' = UnlockIdLocks(locks, LockKey("store_credit_refund", t.key))
  /\ UNCHANGED <<env, auditLost, disk, deliveries, reviewRecords, sched, other, now, http,
                 crashes>>

(* --------------------------- review scheduler -------------------------- *)
\* upsertDeliveryReviewRecordFromFulfillment: the deliveredAtMs it stores, given
\* the stored record and the timestamp of the event being captured
NextDeliveredAtMs(prev, deliveredAtMs) ==
  IF prev.present /\ prev.deliveredAtMs > deliveredAtMs
    THEN prev.deliveredAtMs
    ELSE deliveredAtMs

\* scheduleReviewSendForFulfillmentId: the timer map it leaves (any timer of
\* the fulfillment is cleared and replaced)
ScheduleReviewSend(tm, fulfillmentId, deliveredAtMs) ==
  [tm EXCEPT ![fulfillmentId] = deliveredAtMs + ReviewDelay]

\* the continuation of upsertDeliveryReviewRecordFromFulfillment after the
\* recipient is resolved: lock, load, merge, save, schedule, unlock
CaptureLogged(t, recipientOk, appendFails) ==
  LET f == t.key
      lockKey == <<"delivery_review_capture", f>>
      prev == reviewRecords[f]
      next == NextDeliveredAtMs(prev, t.at)
  IN /\ BagIn(t, tasks) /\ t.kind = "capture"
     /\ tasks' = DropTask(tasks, t)
     /\ IF ~LockIdResult(locks, lockKey)
          THEN /\ UNCHANGED <<locks, reviewRecords, timers>>
               /\ ~appendFails /\ UNCHANGED auditLost
          ELSE /\ Appended(appendFails)
               /\ reviewRecords' =
                    [reviewRecords EXCEPT ![f] =
                       [present |-> TRUE,
                        deliveredAtMs |-> next,
                        reviewMessageSent |-> prev.reviewMessageSent,
                        digitsOk |-> recipientOk \/ prev.digitsOk]]
               /\ timers' = ScheduleReviewSend(timers, f, next)
               /\ locks' = UnlockIdLocks(LockIdLocks(locks, lockKey), lockKey)
     /\ UNCHANGED <<env, disk, deliveries, storeCreditRefunds, schedRunning, sweep,
                    other, now, sendLog, http, crashes>>

CaptureResumes(t, recipientOk) == CaptureLogged(t, recipientOk, FALSE)

\* attemptSendReviewForFulfillmentId up to its await: the lock file it leaves,
\* the continuation it suspends if it gets as far as the send, and whether it
\* ended in its catch block because sendOrderReviewRequestForRecord threw
\* before sending (which appends an error entry to the review log)
NoTask == <<>>
AlwaysDue(rec, tm) == TRUE
IsDue(rec, tm) == ~(rec.deliveredAtMs > tm - ReviewDelay)
\* sendOrderReviewRequestForRecord throws NO_VALID_PHONE or MISSING_REVIEW_URL
PreconditionMissing(rec) == ~rec.digitsOk \/ ~env.reviewUrl
AttemptStart(lk, recs, tm, f, bySweep) ==
  LET lockKey == <<"review_send", f>>
      rec == recs[f]
  IN IF ~LockIdResult(lk, lockKey)
       THEN [locks |-> lk, task |-> NoTask, aborted |-> FALSE]
     ELSE IF ~rec.present \/ rec.reviewMessageSent
       THEN [locks |-> UnlockIdLocks(LockIdLocks(lk, lockKey), lockKey),
             task |-> NoTask, aborted |-> FALSE]
     ELSE IF ~IsDue(rec, tm)
       THEN [locks |-> UnlockIdLocks(LockIdLocks(lk, lockKey), lockKey),
             task |-> NoTask, aborted |-> FALSE]
     ELSE IF PreconditionMissing(rec)
       THEN [locks |-> UnlockIdLocks(LockIdLocks(lk, lockKey), lockKey),
             task |-> NoTask, aborted |-> TRUE]
     ELSE [locks |-> LockIdLocks(lk, lockKey),
           task |-> <<Task("review_send", f, 0, recs, rec, bySweep)>>,
           aborted |-> FALSE]

\* the review log after an attempt: the catch block appends an error entry
LogAttempt(log, f, a) ==
  IF a.aborted THEN Append1(log, "review", f, "aborted") ELSE log

AddTasks(bag, ts) == IF ts = NoTask THEN bag ELSE AddTask(bag, ts[1])

\* review attempts that got past the due test so far: those logged (sent,
\* failed or aborted) and those in flight
RECURSIVE SumLen(_, _)
SumLen(log, k) == IF k = 0 THEN 0 ELSE Len(log[k]) + SumLen(log, k - 1)
ReviewSendsIssued ==
  SumLen(sendLog["review"], NumKeys) + KindCount(tasks, "review_send")

\* the callback of the timer registered by scheduleReviewSendForFulfillmentId
TimerFires(f) ==
  /\ ReviewSendsIssued < MaxSends
  /\ timers[f] # NoTimer
  /\ now >= timers[f]
  /\ timers' = [timers EXCEPT ![f] = NoTimer]
  /\ LET a == AttemptStart(locks, reviewRecords, now, f, FALSE)
     IN /\ locks' = a.locks
        /\ tasks' = AddTasks(tasks, a.task)
        /\ sendLog' = LogAttempt(sendLog, f, a)
  /\ UNCHANGED <<env, auditLost, disk, files, schedRunning, sweep, other, now, http, crashes>>

\* the record written after a successful send: the snapshot loaded before the
\* send, with this fulfillment marked
MarkedSnapshot(t) ==
  [t.snap EXCEPT ![t.key] = [t.rec EXCEPT !.reviewMessageSent = TRUE]]

\* the continuation of attemptSendReviewForFulfillmentId after the send
ReviewSendReturns(t, outcome) ==
  /\ BagIn(t, tasks) /\ t.kind = "review_send"
  /\ tasks' = DropTask(tasks, t)
  /\ sendLog' = Append1(sendLog, "review", t.key, outcome)
  /\ reviewRecords' = IF outcome = "ok" THEN MarkedSnapshot(t) ELSE reviewRecords
  /\ locks' = UnlockIdLocks(locks, <<"review_send", t.key>>)
  /\ sweep' = IF t.bySweep /\ sweep.state = "waiting"
                THEN [sweep EXCEPT !.state = "ready"] ELSE sweep
  /\ UNCHANGED <<env, auditLost, disk, deliveries, storeCreditRefunds, timers,
                 schedRunning, other, now, http, crashes>>

NothingDue(recs, tm, f) == <<>>
\* runReviewSchedulerOnce: the fulfillments its loop will attempt, in the
\* order of Object.values (ascending ids), as filtered with the `now` and the
\* records read when the sweep started
RECURSIVE DueList(_, _, _)
DueList(recs, tm, f) ==
  IF f > NumKeys THEN <<>>
  ELSE IF recs[f].present /\ ~recs[f].reviewMessageSent /\ IsDue(recs[f], tm)
    THEN <<f>> \o DueList(recs, tm, f + 1)
    ELSE DueList(recs, tm, f + 1)

\* one iteration of the loop of runReviewSchedulerOnce, or its finally block
\* when the list is exhausted; lk is the lock file as the iteration finds it
SweepIterate(lk, rest) ==
  IF rest = <<>>
    THEN /\ locks' = UnlockIdLocks(lk, <<"review_scheduler", 0>>)
         /\ schedRunning' = FALSE
         /\ sweep' = IdleSweep
         /\ UNCHANGED <<tasks, sendLog>>
    ELSE LET a == AttemptStart(lk, reviewRecords, now, Head(rest), TRUE)
         IN /\ locks' = a.locks
            /\ tasks' = AddTasks(tasks, a.task)
            /\ sendLog' = LogAttempt(sendLog, Head(rest), a)
            /\ schedRunning' = TRUE
            /\ sweep' = [state |-> IF a.task = NoTask THEN "ready" ELSE "waiting",
                         rest |-> Tail(rest)]

\* `if (__reviewSchedulerRunning) return;`
NeverRunning(flag) == FALSE
AlreadyRunning(flag) == flag
\* runReviewSchedulerOnce, called by the interval timer of app.listen; when
\* lockId fails the flag, set just before, is reset
SweepTick ==
  /\ ReviewSendsIssued < MaxSends
  /\ env.schedulerEnabled
  /\ ~AlreadyRunning(schedRunning)
  /\ IF ~LockIdResult(locks, <<"review_scheduler", 0>>)
       THEN /\ schedRunning' = FALSE
            /\ UNCHANGED <<locks, tasks, sweep, sendLog>>
       ELSE SweepIterate(LockIdLocks(locks, <<"review_scheduler", 0>>),
                         DueList(reviewRecords, now, 1))
  /\ UNCHANGED <<env, auditLost, disk, files, timers, other, now, http, crashes>>

\* the loop of runReviewSchedulerOnce resumes after an awaited attempt
SweepContinues ==
  /\ ReviewSendsIssued < MaxSends
  /\ sweep.state = "ready"
  /\ SweepIterate(locks, sweep.rest)
  /\ UNCHANGED <<env, auditLost, disk, files, timers, other, now, http, crashes>>

(* --------------------------- time and restart -------------------------- *)
Tick ==
  /\ now < MaxTime
  /\ now' = now + 1
  /\ UNCHANGED <<env, auditLost, disk, locks, files, sched, tasks, other, sendLog, http, crashes>>

\* the lock map a restarted process works with: loadLocks reads locks.json as
\* the previous process left it, no start-up code removes an entry
LocksReaped(lk) == {}
LocksAfterRestart(lk) == lk
\* the process stops (at any point between two steps) and is started again:
\* files stay, module state and suspended continuations are gone;
\* processedOrders and processedFulfillments are reloaded from their files
Restart ==
  /\ crashes < MaxCrashes
  /\ crashes' = crashes + 1
  /\ tasks' = EmptyBag
  /\ timers' = [f \in Keys |-> NoTimer]
  /\ schedRunning' = FALSE
  /\ sweep' = IdleSweep
  /\ processedCancellations' = {}
  /\ processedRefunds' = {}
  /\ messageQueue' = <<>>
  /\ isSending' = FALSE
  /\ queuedAbandonedCartTokens' = {}
  /\ processingPayments' = {}
  /\ processedOrders' = [processedOrders EXCEPT !.mem = processedOrders.file]
  /\ processedFulfillments' =
       [processedFulfillments EXCEPT !.mem = processedFulfillments.file]
  /\ locks' = LocksAfterRestart(locks)
  /\ UNCHANGED <<env, auditLost, disk, files, checkouts, verified, observed, ops, now,
                 sendLog, http>>

(* --------------------------- persisted files --------------------------- *)
\* the loaders: loadSet(file, "set") of the processed sets, loadSet(file,
\* "debounced"), loadDeliveryReviewFulfillmentRecords and loadLocks
Datasets == {"processed", "debounced", "records", "locks"}
\* what a map holds under a key (a checkout entry, a record, a timestamp)
EntryValues == {"a", "b"}
\* the values the program saves: a set of keys, or a map from keys
Values(ds) ==
  IF ds = "processed" THEN SUBSET Keys
  ELSE UNION {[S -> EntryValues] : S \in SUBSET Keys}
\* new Set() and {}
Default(ds) == IF ds = "processed" THEN {} ELSE <<>>

\* the text of a file as JSON tokens
Token(kind, key, value) == [kind |-> kind, key |-> key, value |-> value]
Bracket(kind) == Token(kind, 0, "")
\* a file that does not exist (readFileSync throws ENOENT)
NoFile == [exists |-> FALSE, text |-> <<>>]
\* the orders in which the elements of S can be written
Orders(S) ==
  {seq \in [1..Cardinality(S) -> S] :
     \A i, j \in 1..Cardinality(S) : i # j => seq[i] # seq[j]}
\* JSON.stringify(Array.from(set)) and JSON.stringify(map, null, 2): the
\* texts it can produce (elements in insertion order)
Stringify(ds, v) ==
  IF ds = "processed"
    THEN {<<Bracket("[")>>
            \o [i \in 1..Len(seq) |-> Token("item", seq[i], "")]
            \o <<Bracket("]")>> : seq \in Orders(v)}
    ELSE {<<Bracket("{")>>
            \o [i \in 1..Len(seq) |-> Token("item", seq[i], v[seq[i]])]
            \o <<Bracket("}")>> : seq \in Orders(DOMAIN v)}

\* JSON.parse(fs.readFileSync(file)): throws when the file is missing or its
\* text is not a complete JSON value, else returns the array or the object
Threw == [threw |-> TRUE, array |-> FALSE, value |-> <<>>]
JsonParse(file) ==
  LET text == file.text
      n == Len(text)
      items == SubSeq(text, 2, n - 1)
      keys == {items[i].key : i \in 1..Len(items)}
      last(k) == CHOOSE i \in 1..Len(items) :
                   /\ items[i].key = k
                   /\ \A j \in 1..Len(items) : items[j].key = k => j <= i
  IN IF ~file.exists \/ n < 2 THEN Threw
     ELSE IF text[1].kind = "[" /\ text[n].kind = "]"
       THEN [threw |-> FALSE, array |-> TRUE,
             value |-> [i \in 1..Len(items) |-> items[i].key]]
     ELSE IF text[1].kind = "{" /\ text[n].kind = "}"
       THEN [threw |-> FALSE, array |-> FALSE,
             value |-> [k \in keys |-> items[last(k)].value]]
     ELSE Threw

\* what the call of a loader gives its caller: a value, or an exception
Returned(value) == [raised |-> FALSE, value |-> value]
\* try { ... } catch { return <default> }
NoCatch(parsed, value, default) ==
  IF parsed.threw THEN [raised |-> TRUE, value |-> default]
  ELSE Returned(value)
Catch(parsed, value, default) ==
  IF parsed.threw THEN Returned(default) ELSE Returned(value)

\* loadSet(filePath, type): `new Set(data)` throws inside the try when data
\* is not iterable
loadSet(file, type) ==
  LET parsed == JsonParse(file)
  IN IF type = "set"
       THEN IF parsed.threw \/ ~parsed.array THEN Catch(Threw, {}, {})
            ELSE Catch(parsed,
                       {parsed.value[i] : i \in 1..Len(parsed.value)}, {})
     ELSE Catch(parsed, parsed.value, <<>>)
loadLocks(file) ==
  LET parsed == JsonParse(file) IN Catch(parsed, parsed.value, <<>>)
loadDeliveryReviewFulfillmentRecords(file) ==
  LET parsed == JsonParse(file) IN Catch(parsed, parsed.value, <<>>)
Load(ds, file) ==
  IF ds = "processed" THEN loadSet(file, "set")
  ELSE IF ds = "debounced" THEN loadSet(file, "debounced")
  ELSE IF ds = "records" THEN loadDeliveryReviewFulfillmentRecords(file)
  ELSE loadLocks(file)

\* no loader has been called since the file was last written
NoLoad(ds) == [called |-> FALSE, raised |-> FALSE, value |-> Default(ds)]
\* the file of a dataset in a fresh deployment: it does not exist
FreshDisk(ds) ==
  [dataset |-> ds, file |-> NoFile, saved |-> Default(ds), intact |-> FALSE,
   loaded |-> NoLoad(ds)]
\* no file is looked at as text
Unobserved == FreshDisk("none")

\* fs.writeFileSync(file, JSON.stringify(value)) returns
SaveCompletes(v) ==
  /\ \E text \in Stringify(disk.dataset, v) :
       disk' = [disk EXCEPT !.file = [exists |-> TRUE, text |-> text],
                            !.saved = v, !.intact = TRUE,
                            !.loaded = NoLoad(disk.dataset)]
  /\ UNCHANGED <<env, auditLost, locks, files, sched, tasks, other, now,
                 sendLog, http, crashes>>
\* the process dies inside fs.writeFileSync, which has truncated the file and
\* written the first n tokens of the text
SaveInterrupted(v, n) ==
  /\ \E text \in Stringify(disk.dataset, v) :
       /\ n < Len(text)
       /\ disk' = [disk EXCEPT
                     !.file = [exists |-> TRUE, text |-> SubSeq(text, 1, n)],
                     !.intact = FALSE, !.loaded = NoLoad(disk.dataset)]
  /\ UNCHANGED <<env, auditLost, locks, files, sched, tasks, other, now,
                 sendLog, http, crashes>>
\* a loader is called
Loads ==
  /\ LET result == Load(disk.dataset, disk.file)
     IN disk' = [disk EXCEPT !.loaded = [called |-> TRUE,
                                         raised |-> result.raised,
                                         value |-> result.value]]
  /\ UNCHANGED <<env, auditLost, locks, files, sched, tasks, other, now,
                 sendLog, http, crashes>>

(* ------------------------------ behaviours ----------------------------- *)
\* no ops script has been run: sendDeliveredMessageLatest.js (its position,
\* the fulfillment it picked, --force, the ledger it loaded) and
\* sendOrderReviewRequests.js (its position, the records it loaded at the
\* start, the entries left to scan, the fulfillment being sent, the records
\* and the record it loaded for it)
NoRuns ==
  [delivered |-> [pc |-> "idle", key |-> 0, force |-> FALSE, notified |-> {}],
   review |-> [pc |-> "idle", records |-> EmptyRecords, rest |-> <<>>,
               key |-> 0, latest |-> EmptyRecords, latestRec |-> NoRec]]
InitDisk(e, d) ==
  /\ env = e
  /\ locks = {}
  /\ deliveries = {}
  /\ storeCreditRefunds = {}
  /\ reviewRecords = EmptyRecords
  /\ timers = [f \in Keys |-> NoTimer]
  /\ schedRunning = FALSE
  /\ sweep = IdleSweep
  /\ tasks = EmptyBag
  /\ processedOrders = [mem |-> {}, file |-> {}]
  /\ processedFulfillments = [mem |-> {}, file |-> {}]
  /\ processedCancellations = {}
  /\ processedRefunds = {}
  /\ checkouts = [k \in Keys |-> <<>>]
  /\ verified = [k \in Keys |-> <<>>]
  /\ observed = [k \in Keys |-> [n |-> 0, last |-> <<>>, at |-> 0]]
  /\ messageQueue = <<>>
  /\ isSending = FALSE
  /\ queuedAbandonedCartTokens = {}
  /\ processingPayments = {}
  /\ ops = NoRuns
  /\ auditLost = 0
  /\ disk = d
  /\ now = 1
  /\ sendLog = [c \in Categories |-> [k \in Keys |-> <<>>]]
  /\ resp = [status |-> 0, signed |-> FALSE, topicOk |-> FALSE, shopOk |-> FALSE]
  /\ nreq = 0
  /\ crashes = 0
InitState(e) == InitDisk(e, Unobserved)

DefaultEnv ==
  [allowUnverified |-> FALSE, schedulerEnabled |-> TRUE, reviewUrl |-> TRUE]

SendOutcomes == {"ok", "fail", "no_phone"}

\* the signed endpoints: fulfillments/update and refunds/create
Init == \E a \in BOOLEAN : InitState([DefaultEnv EXCEPT !.allowUnverified = a])

Next ==
  \/ \E topic \in Topics("fulfillments/update"), shop \in ShopDomains,
        body \in FulfillmentBodies :
       \E hmac \in HmacHeaders(body, OtherFulfillmentBody(body)) :
         handleFulfillmentsUpdateWebhook(topic, shop, hmac, body)
  \/ \E topic \in Topics("refunds/create"), shop \in ShopDomains,
        body \in RefundBodies :
       \E hmac \in HmacHeaders(body, OtherRefundBody(body)) :
         handleRefundsCreateWebhook(topic, shop, hmac, body)
  \/ \E t \in BagToSet(tasks), o \in SendOutcomes : DeliverySendReturns(t, o)
  \/ \E t \in BagToSet(tasks), o \in {"found", "none"} : RefundLookupReturns(t, o)
  \/ \E t \in BagToSet(tasks), o \in SendOutcomes : RefundSendReturns(t, o)
  \/ \E t \in BagToSet(tasks), ok \in BOOLEAN : CaptureResumes(t, ok)
  \/ Restart

Spec == Init /\ [][Next]_vars

\* the review scheduler: captures, timers, sweeps, the clock; with
\* REVIEW_SCHEDULER_ENABLED unset (enabled) or set to false
ReviewInit ==
  \E enabled \in BOOLEAN :
    InitState([DefaultEnv EXCEPT !.schedulerEnabled = enabled])

\* an authenticated delivered event reaches upsertDeliveryReviewRecord...
DeliveredEvent(f, updatedAt) ==
  /\ nreq < MaxEvents
  /\ nreq' = nreq + 1
  /\ tasks' = UpsertStart(tasks, f, updatedAt, now)
  /\ UNCHANGED <<env, auditLost, disk, locks, files, sched, other, now, sendLog, resp, crashes>>

ReviewNext ==
  \/ \E f \in Keys, u \in 0..MaxTime : DeliveredEvent(f, u)
  \/ \E t \in BagToSet(tasks), ok \in BOOLEAN : CaptureResumes(t, ok)
  \/ \E f \in Keys : TimerFires(f)
  \/ \E t \in BagToSet(tasks), o \in {"ok", "fail"} : ReviewSendReturns(t, o)
  \/ SweepTick
  \/ SweepContinues
  \/ Tick
  \/ Restart

SpecReview == ReviewInit /\ [][ReviewNext]_vars

\* the review scheduler in a process that stays up: the interval timer of
\* app.listen keeps calling runReviewSchedulerOnce, the loop of a sweep resumes
\* after each awaited attempt, and every awaited send returns or throws
RetryNext ==
  \/ \E f \in Keys, u \in 0..MaxTime : DeliveredEvent(f, u)
  \/ \E t \in BagToSet(tasks), ok \in BOOLEAN : CaptureResumes(t, ok)
  \/ \E f \in Keys : TimerFires(f)
  \/ \E t \in BagToSet(tasks), o \in {"ok", "fail"} : ReviewSendReturns(t, o)
  \/ SweepTick
  \/ SweepContinues
  \/ Tick

SpecRetry ==
  /\ ReviewInit
  /\ [][RetryNext]_vars
  /\ WF_vars(SweepTick)
  /\ WF_vars(SweepContinues)
  /\ WF_vars(\E t \in BagToSet(tasks), o \in {"ok", "fail"} :
               ReviewSendReturns(t, o))

\* the delivery path with its audit logs: the delivery webhook, its send and
\* the capture of the delivery into the review records; every append to the
\* delivery log and to the review log succeeds or fails
AuditNext ==
  \/ \E topic \in Topics("fulfillments/update"), shop \in ShopDomains,
        body \in FulfillmentBodies, fails \in BOOLEAN :
       \E hmac \in HmacHeaders(body, OtherFulfillmentBody(body)) :
         FulfillmentsUpdateLogged(topic, shop, hmac, body, fails)
  \/ \E t \in BagToSet(tasks), o \in SendOutcomes, fails \in BOOLEAN :
       DeliverySendLogged(t, o, fails)
  \/ \E t \in BagToSet(tasks), ok \in BOOLEAN, fails \in BOOLEAN :
       CaptureLogged(t, ok, fails)

SpecAudit == InitState(DefaultEnv) /\ [][AuditNext]_vars

\* one persisted file from a fresh deployment on: saves that complete, saves
\* cut short by the death of the process, loads
FilesInit == \E ds \in Datasets : InitDisk(DefaultEnv, FreshDisk(ds))
FilesNext ==
  \/ \E v \in Values(disk.dataset) : SaveCompletes(v)
  \/ \E v \in Values(disk.dataset), n \in 0..(NumKeys + 1) :
       SaveInterrupted(v, n)
  \/ Loads
SpecFiles == FilesInit /\ [][FilesNext]_vars

(* ------------- endpoints deduplicated by an in-memory set -------------- *)
\* saveSet(file, dataset, item, "set"): the Set gains the item and the file is
\* overwritten with the whole Set
SaveSet(ds, item) == [mem |-> ds.mem \cup {item}, file |-> ds.mem \cup {item}]

\* POST /webhook/order-confirmation: sendOrderConfirmation is started unless
\* the order id is in processedOrders
OrderConfirmationWebhook(id) ==
  /\ nreq < MaxRequests
  /\ nreq' = nreq + 1
  /\ Respond(200, Unsigned)
  /\ tasks' = IF id \in processedOrders.mem THEN tasks
              ELSE AddTask(tasks, SimpleTask("order_confirmation", id))
  /\ UNCHANGED <<env, auditLost, disk, locks, files, sched, other, now, sendLog, crashes>>

\* sendOrderConfirmation after `await sendDoubleTickTemplateMessage`
OrderConfirmationSendReturns(t, outcome) ==
  /\ BagIn(t, tasks) /\ t.kind = "order_confirmation"
  /\ tasks' = DropTask(tasks, t)
  /\ sendLog' = Append1(sendLog, "order_confirmation", t.key, outcome)
  /\ processedOrders' = IF outcome = "ok" THEN SaveSet(processedOrders, t.key)
                        ELSE processedOrders
  /\ UNCHANGED <<env, auditLost, disk, locks, files, sched, processedFulfillments,
                 processedCancellations, processedRefunds, checkouts, verified,
                 observed, queue, ops, now, http, crashes>>

\* POST /webhook/fulfillment-creation
FulfillmentCreationWebhook(id) ==
  /\ nreq < MaxRequests
  /\ nreq' = nreq + 1
  /\ Respond(200, Unsigned)
  /\ tasks' = IF id \in processedFulfillments.mem THEN tasks
              ELSE AddTask(tasks, SimpleTask("fulfillment_creation", id))
  /\ UNCHANGED <<env, auditLost, disk, locks, files, sched, other, now, sendLog, crashes>>

\* sendFulfillmentMessage after `await sendDoubleTickTemplateMessage`
FulfillmentMessageSendReturns(t, outcome) ==
  /\ BagIn(t, tasks) /\ t.kind = "fulfillment_creation"
  /\ tasks' = DropTask(tasks, t)
  /\ sendLog' = Append1(sendLog, "fulfillment_creation", t.key, outcome)
  /\ processedFulfillments' =
       IF outcome = "ok" THEN SaveSet(processedFulfillments, t.key)
       ELSE processedFulfillments
  /\ UNCHANGED <<env, auditLost, disk, locks, files, sched, processedOrders,
                 processedCancellations, processedRefunds, checkouts, verified,
                 observed, queue, ops, now, http, crashes>>

\* POST /webhook/order-cancellation: the id is added to
\* global.__processedCancellations before the send is started
OrderCancellationWebhook(id) ==
  /\ nreq < MaxRequests
  /\ nreq' = nreq + 1
  /\ Respond(200, Unsigned)
  /\ IF id \in processedCancellations
       THEN UNCHANGED <<processedCancellations, tasks>>
       ELSE /\ processedCancellations' = processedCancellations \cup {id}
            /\ tasks' = AddTask(tasks, SimpleTask("order_cancellation", id))
  /\ UNCHANGED <<env, auditLost, disk, locks, files, sched, processedOrders,
                 processedFulfillments, processedRefunds, checkouts, verified,
                 observed, queue, ops, now, sendLog, crashes>>

\* POST /webhook/refund-processed: likewise with global.__processedRefunds
RefundProcessedWebhook(id) ==
  /\ nreq < MaxRequests
  /\ nreq' = nreq + 1
  /\ Respond(200, Unsigned)
  /\ IF id \in processedRefunds
       THEN UNCHANGED <<processedRefunds, tasks>>
       ELSE /\ processedRefunds' = processedRefunds \cup {id}
            /\ tasks' = AddTask(tasks, SimpleTask("refund_processed", id))
  /\ UNCHANGED <<env, auditLost, disk, locks, files, sched, processedOrders,
                 processedFulfillments, processedCancellations, checkouts,
                 verified, observed, queue, ops, now, sendLog, crashes>>

\* the detached task of either endpoint after its send returned or threw
DetachedSendReturns(t, outcome) ==
  /\ BagIn(t, tasks) /\ t.kind \in {"order_cancellation", "refund_processed"}
  /\ tasks' = DropTask(tasks, t)
  /\ sendLog' = Append1(sendLog, t.kind, t.key, outcome)
  /\ UNCHANGED <<env, auditLost, disk, locks, files, sched, other, now, http, crashes>>

MemNext ==
  \/ \E id \in Keys : OrderConfirmationWebhook(id)
  \/ \E t \in BagToSet(tasks), o \in {"ok", "fail"} : OrderConfirmationSendReturns(t, o)
  \/ \E id \in Keys : FulfillmentCreationWebhook(id)
  \/ \E t \in BagToSet(tasks), o \in {"ok", "fail"} : FulfillmentMessageSendReturns(t, o)
  \/ \E id \in Keys : OrderCancellationWebhook(id)
  \/ \E id \in Keys : RefundProcessedWebhook(id)
  \/ \E t \in BagToSet(tasks), o \in {"ok", "fail"} : DetachedSendReturns(t, o)
  \/ Restart

SpecMem == InitState(DefaultEnv) /\ [][MemNext]_vars

(* ---------------------------- debounce queue --------------------------- *)
NoCheckout == <<>>
\* the checkout payloads: ver tells two payloads apart, email and phoneDigits
\* are what the evaluator reads of the contact fields
Checkouts(ver) == [ver : {ver}, email : BOOLEAN, phoneDigits : {0, 6, 10}]

\* saveSet(file, dataset, item, "debounced")
SaveKeepsFirst(ds, cart_token, checkout, tm) ==
  IF ds[cart_token] # NoCheckout THEN ds
  ELSE [ds EXCEPT ![cart_token] = [checkout |-> checkout, updatedAt |-> tm]]
SaveDebounced(ds, cart_token, checkout, tm) ==
  [ds EXCEPT ![cart_token] = [checkout |-> checkout, updatedAt |-> tm]]

\* POST /webhook/abandoned-checkouts (cart_token = 0: the payload has none)
AbandonedCheckoutsWebhook(cart_token, checkout) ==
  /\ nreq < MaxRequests
  /\ nreq' = nreq + 1
  /\ Respond(200, Unsigned)
  /\ IF cart_token = 0
       THEN UNCHANGED <<checkouts, observed>>
       ELSE /\ checkouts' = SaveDebounced(checkouts, cart_token, checkout, now)
            /\ observed' = [observed EXCEPT ![cart_token] =
                                         [n |-> @.n + 1, last |-> checkout,
                                          at |-> now]]
  /\ UNCHANGED <<env, auditLost, disk, locks, files, sched, tasks, processedOrders,
                 processedFulfillments, processedCancellations,
                 processedRefunds, verified, queue, ops, now, sendLog, crashes>>

\* the evaluator's tests on one entry
ExpiredAtOnce(entry, tm) == TRUE
Expired(entry, tm) == tm - entry.updatedAt >= DebounceDelay
EveryCheckoutHasContact(checkout) == TRUE
HasContactInfo(checkout) == checkout.phoneDigits >= 10 \/ checkout.email

\* verifyCheckout(checkout) up to `await client.get({path: "orders"})`, for
\* each cart token of S: the request for the recent orders is in flight
\* (razorpayClient is configured; the caller has seen contact info)
RECURSIVE VerifyCheckoutStart(_, _)
VerifyCheckoutStart(bag, S) ==
  IF S = {} THEN bag
  ELSE LET k == CHOOSE x \in S : TRUE
       IN VerifyCheckoutStart(AddTask(bag, SimpleTask("orders_lookup", k)), S \ {k})

\* the setInterval callback, one CHECK_INTERVAL after the previous one
EvaluatorTick ==
  /\ now < MaxPeriods
  /\ now' = now + 1
  /\ LET due == {k \in Keys : checkouts[k] # NoCheckout /\ Expired(checkouts[k], now')}
         called == {k \in due : HasContactInfo(checkouts[k].checkout)}
     IN /\ checkouts' = [k \in Keys |-> IF k \in due THEN NoCheckout ELSE checkouts[k]]
        /\ verified' =
             [k \in Keys |->
                IF k \in called THEN Append(verified[k], checkouts[k].checkout)
                ELSE verified[k]]
        /\ tasks' = VerifyCheckoutStart(tasks, called)
  /\ UNCHANGED <<env, auditLost, disk, locks, files, sched, processedOrders,
                 processedFulfillments, processedCancellations,
                 processedRefunds, observed, queue, ops, sendLog, http, crashes>>

DebounceNext ==
  \/ \E k \in 0..NumKeys : \E c \in Checkouts(nreq + 1) :
       AbandonedCheckoutsWebhook(k, c)
  \/ EvaluatorTick
  \/ Restart

SpecDebounce == InitState(DefaultEnv) /\ [][DebounceNext]_vars

(* ------------- checkout verification and the send queue ---------------- *)
\* what the orders request of verifyCheckout comes back with: the orders, with
\* one that has the cart token or the checkout token of the checkout, or one
\* of the same contact and price, or none of these; or an error, which
\* carries a response object (the API answered) or none (no connection)
OrdersAnswers ==
  {"orders_same_token", "orders_duplicate", "orders_no_match",
   "orders_error", "orders_error_no_response"}

\* the answer to a request in flight arrives; the continuation is resumed in
\* a later step
OrdersLookupAnswered(t, answer) ==
  /\ BagIn(t, tasks) /\ t.kind = "orders_lookup"
  /\ tasks' = AddTask(DropTask(tasks, t), SimpleTask(answer, t.key))
  /\ UNCHANGED <<env, auditLost, disk, locks, files, sched, other, now, sendLog, http, crashes>>

\* verifyCheckout: does an answer end the verification (the checkout is
\* converted or duplicated by an order)
EveryCheckoutQualifies(answer) == FALSE
NoLongerQualifies(answer) ==
  answer \in {"orders_same_token", "orders_duplicate"}

\* processQueue(): the queue state it leaves and the send it starts, if any
ProcessQueue(mq, sending, bag) ==
  IF sending \/ mq = <<>>
    THEN [messageQueue |-> mq, isSending |-> sending, tasks |-> bag]
    ELSE [messageQueue |-> Tail(mq), isSending |-> TRUE,
          tasks |-> AddTask(bag, SimpleTask("abandoned_checkout", Head(mq)))]

\* the process ends on an error nobody catches; it is started again
ProcessExits ==
  /\ crashes < MaxCrashes
  /\ Restart

\* verifyCheckout resumes after `await client.get`. An error without a
\* response object makes the catch block itself throw (err.response.data):
\* the promise of verifyCheckout is rejected and the evaluator, which does
\* not await it, has no handler; the runtime then either ends the process
\* or only warns.
VerifyCheckoutResumes(t, exits) ==
  /\ BagIn(t, tasks) /\ t.kind \in OrdersAnswers
  /\ IF t.kind = "orders_error_no_response"
       THEN IF exits THEN ProcessExits
            ELSE /\ tasks' = DropTask(tasks, t)
                 /\ UNCHANGED <<env, auditLost, disk, locks, files, sched, other, now, sendLog,
                                http, crashes>>
     ELSE /\ tasks' = IF NoLongerQualifies(t.kind) THEN DropTask(tasks, t)
                      ELSE AddTask(DropTask(tasks, t),
                                   SimpleTask("payments_lookup", t.key))
          /\ UNCHANGED <<env, auditLost, disk, locks, files, sched, other, now, sendLog, http,
                         crashes>>

\* verifyCheckout resumes after `await razorpayClient.fetchTodaysPayments()`:
\* nothing usable (no list, or the call threw), no captured payment that
\* matches the checkout, or one (whose id is modelled by the cart token)
PaymentsAnswers == {"payments_none", "payments_no_captured", "payments_captured"}
VerifyPaymentsResumes(t, answer) ==
  LET k == t.key
      lockKey == <<"payment", k>>
  IN /\ BagIn(t, tasks) /\ t.kind = "payments_lookup"
     /\ IF answer = "payments_no_captured"
          \* enqueueAbandonedCheckout, which calls processQueue
          THEN /\ IF k \in queuedAbandonedCartTokens
                    THEN /\ tasks' = DropTask(tasks, t)
                         /\ UNCHANGED <<messageQueue, isSending,
                                        queuedAbandonedCartTokens>>
                    ELSE LET q == ProcessQueue(Append(messageQueue, k), isSending,
                                               DropTask(tasks, t))
                         IN /\ queuedAbandonedCartTokens' =
                                 queuedAbandonedCartTokens \cup {k}
                            /\ messageQueue' = q.messageQueue
                            /\ isSending' = q.isSending
                            /\ tasks' = q.tasks
               /\ UNCHANGED <<locks, processingPayments>>
        ELSE IF answer = "payments_captured"
          THEN /\ tasks' = DropTask(tasks, t)
               /\ IF k \in processingPayments
                    THEN UNCHANGED <<locks, processingPayments>>
                  ELSE IF ~LockIdResult(locks, lockKey)
                    THEN /\ locks' = LockIdLocks(locks, lockKey)
                         /\ UNCHANGED processingPayments
                  ELSE /\ locks' = LockIdLocks(locks, lockKey)
                       /\ processingPayments' = processingPayments \cup {k}
               /\ UNCHANGED <<messageQueue, isSending, queuedAbandonedCartTokens>>
        ELSE /\ tasks' = DropTask(tasks, t)
             /\ UNCHANGED <<locks, queue>>
     /\ UNCHANGED <<env, auditLost, disk, files, sched, processedOrders, processedFulfillments,
                    processedCancellations, processedRefunds, checkouts,
                    verified, observed, ops, now, sendLog, http, crashes>>

\* processQueue resumes after `await handleAbandonedCheckoutMessage`: the send
\* was accepted or failed (logged); the finally block frees the cart token
\* and schedules processQueue with setImmediate
AbandonedSendReturns(t, outcome) ==
  /\ BagIn(t, tasks) /\ t.kind = "abandoned_checkout"
  /\ sendLog' = Append1(sendLog, "abandoned_checkout", t.key, outcome)
  /\ queuedAbandonedCartTokens' = queuedAbandonedCartTokens \ {t.key}
  /\ isSending' = FALSE
  /\ tasks' = AddTask(DropTask(tasks, t), SimpleTask("process_queue", 0))
  /\ UNCHANGED <<env, auditLost, disk, locks, files, sched, processedOrders,
                 processedFulfillments, processedCancellations,
                 processedRefunds, checkouts, verified, observed, messageQueue,
                 processingPayments, ops, now, http, crashes>>

\* the processQueue call scheduled with setImmediate
ProcessQueueRuns(t) ==
  /\ BagIn(t, tasks) /\ t.kind = "process_queue"
  /\ LET q == ProcessQueue(messageQueue, isSending, DropTask(tasks, t))
     IN /\ messageQueue' = q.messageQueue
        /\ isSending' = q.isSending
        /\ tasks' = q.tasks
  /\ UNCHANGED <<env, auditLost, disk, locks, files, sched, processedOrders,
                 processedFulfillments, processedCancellations,
                 processedRefunds, checkouts, verified, observed,
                 queuedAbandonedCartTokens, processingPayments, ops, now,
                 sendLog, http, crashes>>

\* the abandoned-checkout pipeline end to end; the process is not stopped from
\* outside in these behaviours, it ends only when a handler fails
VerifyNext ==
  \/ \E k \in 0..NumKeys : \E c \in Checkouts(nreq + 1) :
       AbandonedCheckoutsWebhook(k, c)
  \/ EvaluatorTick
  \/ \E t \in BagToSet(tasks), a \in OrdersAnswers : OrdersLookupAnswered(t, a)
  \/ \E t \in BagToSet(tasks), exits \in BOOLEAN : VerifyCheckoutResumes(t, exits)
  \/ \E t \in BagToSet(tasks), a \in PaymentsAnswers : VerifyPaymentsResumes(t, a)
  \/ \E t \in BagToSet(tasks), o \in {"ok", "fail"} : AbandonedSendReturns(t, o)
  \/ \E t \in BagToSet(tasks) : ProcessQueueRuns(t)

SpecVerify == InitState(DefaultEnv) /\ [][VerifyNext]_vars

\* verifyCheckout(checkout) is called (by the evaluator, for a checkout that
\* expired with contact details) and sends its orders request
CallsMade == SumLen(verified, NumKeys)
verifyCheckout(k, checkout) ==
  /\ CallsMade < MaxRequests
  /\ verified' = [verified EXCEPT ![k] = Append(@, checkout)]
  /\ tasks' = VerifyCheckoutStart(tasks, {k})
  /\ UNCHANGED <<env, auditLost, disk, locks, files, sched, processedOrders,
                 processedFulfillments, processedCancellations,
                 processedRefunds, checkouts, observed, queue, ops, now,
                 sendLog, http, crashes>>

\* the verifications and the send queue on their own: verifyCheckout calls
\* for any cart token at any time, their lookups, the queue, the sends
QueueNext ==
  \/ \E k \in Keys :
       \E c \in {x \in Checkouts(CallsMade + 1) :
                   x.email /\ x.phoneDigits >= 10} :
         verifyCheckout(k, c)
  \/ \E t \in BagToSet(tasks), a \in OrdersAnswers : OrdersLookupAnswered(t, a)
  \/ \E t \in BagToSet(tasks), exits \in BOOLEAN : VerifyCheckoutResumes(t, exits)
  \/ \E t \in BagToSet(tasks), a \in PaymentsAnswers : VerifyPaymentsResumes(t, a)
  \/ \E t \in BagToSet(tasks), o \in {"ok", "fail"} : AbandonedSendReturns(t, o)
  \/ \E t \in BagToSet(tasks) : ProcessQueueRuns(t)

SpecQueue == InitState(DefaultEnv) /\ [][QueueNext]_vars

(* --------------- ops/sendDeliveredMessageLatest.js --------------------- *)
\* main() up to `await sendDoubleTickTemplateMessage`: the fulfillment picked
\* is the latest of the order chosen; the ledger is loaded once, and a key
\* found in it ends the run unless --force is given
ManualDeliveredStarts(fulfillmentId, force) ==
  /\ ops.delivered.pc = "idle"
  /\ ops' = [ops EXCEPT !.delivered =
               [pc |-> IF ~force /\ fulfillmentId \in deliveries
                         THEN "done" ELSE "sending",
                key |-> fulfillmentId, force |-> force,
                notified |-> deliveries]]
  /\ UNCHANGED <<env, auditLost, disk, locks, files, sched, tasks, processedOrders,
                 processedFulfillments, processedCancellations,
                 processedRefunds, checkouts, verified, observed, queue, now,
                 sendLog, http, crashes>>

\* main() after the send: on success the Set loaded at the start, with the
\* key added, is written over processed-deliveries.json; an invalid phone is
\* thrown before the send, a failed send after it
ManualDeliveredReturns(outcome) ==
  /\ ops.delivered.pc = "sending"
  /\ ops' = [ops EXCEPT !.delivered.pc = "done"]
  /\ sendLog' = IF outcome = "no_phone" THEN sendLog
                ELSE Append1(sendLog, "delivery", ops.delivered.key, outcome)
  /\ deliveries' = IF outcome = "ok"
                     THEN ops.delivered.notified \cup {ops.delivered.key}
                     ELSE deliveries
  /\ UNCHANGED <<env, auditLost, disk, locks, storeCreditRefunds, reviewRecords, sched, tasks,
                 processedOrders, processedFulfillments, processedCancellations,
                 processedRefunds, checkouts, verified, observed, queue, now,
                 http, crashes>>

\* authenticated fulfillments/update deliveries of delivered fulfillments, and
\* one run of the manual trigger beside the server
ManualNext ==
  \/ \E body \in {b \in FulfillmentBodies : b.shipment_status = "delivered"} :
       handleFulfillmentsUpdateWebhook("fulfillments/update", SHOPIFY_DOMAIN,
                                       Digest(Secret, body), body)
  \/ \E t \in BagToSet(tasks), o \in SendOutcomes : DeliverySendReturns(t, o)
  \/ \E t \in BagToSet(tasks), ok \in BOOLEAN : CaptureResumes(t, ok)
  \/ \E f \in Keys, force \in BOOLEAN : ManualDeliveredStarts(f, force)
  \/ \E o \in SendOutcomes : ManualDeliveredReturns(o)

SpecManual == InitState(DefaultEnv) /\ [][ManualNext]_vars

(* ---------------- ops/sendOrderReviewRequests.js ----------------------- *)
\* entries.sort by deliveredAtMs (stable): seq with f inserted in its place
RECURSIVE InsertByDeliveredAt(_, _, _)
InsertByDeliveredAt(recs, seq, f) ==
  IF seq = <<>> THEN <<f>>
  ELSE IF recs[f].deliveredAtMs < recs[Head(seq)].deliveredAtMs
    THEN <<f>> \o seq
    ELSE <<Head(seq)>> \o InsertByDeliveredAt(recs, Tail(seq), f)

\* the entries the loop of main() gets past its first three tests with, in the
\* order it visits them: present, not marked sent and old enough in the
\* records and at the time read when the script started
RECURSIVE ScanList(_, _, _)
ScanList(recs, tm, f) ==
  IF f = 0 THEN <<>>
  ELSE IF recs[f].present /\ ~recs[f].reviewMessageSent /\ IsDue(recs[f], tm)
    THEN InsertByDeliveredAt(recs, ScanList(recs, tm, f - 1), f)
    ELSE ScanList(recs, tm, f - 1)

\* main() up to its loop, with REVIEW_DELAY_MS set as for the server
ReviewScriptStarts ==
  /\ ops.review.pc = "idle"
  /\ ops' = [ops EXCEPT !.review.pc = "ready",
                        !.review.records = reviewRecords,
                        !.review.rest = ScanList(reviewRecords, now, NumKeys)]
  /\ UNCHANGED <<env, auditLost, disk, locks, files, sched, tasks, processedOrders,
                 processedFulfillments, processedCancellations,
                 processedRefunds, checkouts, verified, observed, queue, now,
                 sendLog, http, crashes>>

\* one iteration of the loop of main() up to its await: lock, re-load, test
ReviewScriptIterates ==
  /\ ops.review.pc = "ready"
  /\ IF ops.review.rest = <<>>
       THEN ops' = [ops EXCEPT !.review.pc = "done"] /\ UNCHANGED locks
       ELSE LET f == Head(ops.review.rest)
                lockKey == <<"review_send", f>>
                latest == reviewRecords
                latestRec == IF latest[f].present THEN latest[f]
                             ELSE ops.review.records[f]
                sends == /\ LockIdResult(locks, lockKey)
                         /\ ~latestRec.reviewMessageSent
                         /\ latestRec.digitsOk /\ env.reviewUrl
            IN /\ locks' = IF sends THEN LockIdLocks(locks, lockKey)
                           ELSE IF LockIdResult(locks, lockKey)
                             THEN UnlockIdLocks(LockIdLocks(locks, lockKey),
                                                lockKey)
                           ELSE locks
               /\ ops' = [ops EXCEPT
                            !.review.rest = Tail(ops.review.rest),
                            !.review.pc = IF sends THEN "sending" ELSE "ready",
                            !.review.key = IF sends THEN f ELSE @,
                            !.review.latest = IF sends THEN latest ELSE @,
                            !.review.latestRec = IF sends THEN latestRec ELSE @]
  /\ UNCHANGED <<env, auditLost, disk, files, sched, tasks, processedOrders,
                 processedFulfillments, processedCancellations,
                 processedRefunds, checkouts, verified, observed, queue, now,
                 sendLog, http, crashes>>

\* the loop of main() after the send: on success the records loaded before the
\* send, with this entry marked, are written over the file; then unlock
ReviewScriptSendReturns(outcome) ==
  LET f == ops.review.key
  IN /\ ops.review.pc = "sending"
     /\ ops' = [ops EXCEPT !.review.pc = "ready"]
     /\ sendLog' = Append1(sendLog, "review", f, outcome)
     /\ reviewRecords' =
          IF outcome = "ok"
            THEN [ops.review.latest EXCEPT ![f] =
                    [ops.review.latestRec EXCEPT !.reviewMessageSent = TRUE]]
            ELSE reviewRecords
     /\ locks' = UnlockIdLocks(locks, <<"review_send", f>>)
     /\ UNCHANGED <<env, auditLost, disk, deliveries, storeCreditRefunds, sched, tasks,
                    processedOrders, processedFulfillments,
                    processedCancellations, processedRefunds, checkouts,
                    verified, observed, queue, now, http, crashes>>

\* the review scheduler of the server and one run of the script beside it
RescanNext ==
  \/ \E f \in Keys, u \in 0..MaxTime : DeliveredEvent(f, u)
  \/ \E t \in BagToSet(tasks), ok \in BOOLEAN : CaptureResumes(t, ok)
  \/ \E f \in Keys : TimerFires(f)
  \/ \E t \in BagToSet(tasks), o \in {"ok", "fail"} : ReviewSendReturns(t, o)
  \/ SweepTick
  \/ SweepContinues
  \/ Tick
  \/ ReviewScriptStarts
  \/ ReviewScriptIterates
  \/ \E o \in {"ok", "fail"} : ReviewScriptSendReturns(o)

SpecRescan == ReviewInit /\ [][RescanNext]_vars

(* ------------------------- REVIEW_DELAY_MS ----------------------------- *)
\* process.env.REVIEW_DELAY_MS: absent, or a string of at most MaxEnvLen
\* characters
MaxEnvLen == 2
EnvChars == {"0", "6", "x"}
Unset == [set |-> FALSE, chars |-> <<>>]
RECURSIVE Strings(_)
Strings(n) ==
  IF n = 0 THEN {<<>>}
  ELSE Strings(n - 1) \cup
       {Append(str, c) : str \in {x \in Strings(n - 1) : Len(x) = n - 1},
                         c \in EnvChars}
EnvValues == {Unset} \cup {[set |-> TRUE, chars |-> str] : str \in Strings(MaxEnvLen)}

\* Number(value): NaN for undefined and for a string that is no numeral, 0 for
\* the empty string, the decimal value of a string of digits
NaN == [finite |-> FALSE, value |-> 0]
DigitValue(c) == IF c = "6" THEN 6 ELSE 0
RECURSIVE Decimal(_)
Decimal(chars) ==
  IF chars = <<>> THEN 0
  ELSE 10 * Decimal(SubSeq(chars, 1, Len(chars) - 1))
         + DigitValue(chars[Len(chars)])
ToNumber(value) ==
  IF ~value.set THEN NaN
  ELSE IF \E i \in 1..Len(value.chars) : value.chars[i] = "x" THEN NaN
  ELSE [finite |-> TRUE, value |-> Decimal(value.chars)]

\* getReviewDelayMs of the server and minAgeMs of sendOrderReviewRequests.js
FOUR_DAYS_MS == 4 * 24 * 60 * 60 * 1000
FIVE_DAYS_MS == 5 * 24 * 60 * 60 * 1000
getReviewDelayMs(value) ==
  LET parsedDelayMs == ToNumber(value)
  IN IF parsedDelayMs.finite THEN parsedDelayMs.value ELSE FOUR_DAYS_MS
minAgeMs(value) ==
  LET parsedDelayMs == ToNumber(value)
  IN IF parsedDelayMs.finite THEN parsedDelayMs.value ELSE FIVE_DAYS_MS

\* the default the comment of app.listen documents
ONE_MINUTE_MS == 60 * 1000

\* the instants the clock is looked at (ms since the server started)
Instants == {1, ONE_MINUTE_MS, FOUR_DAYS_MS, FIVE_DAYS_MS}

\* upsertDeliveryReviewRecordFromFulfillment once the recipient is resolved,
\* with the delay read from the environment: save the record, schedule
DeliveryCaptured(f, deliveredAtMs, recipientOk) ==
  LET prev == reviewRecords[f]
      next == NextDeliveredAtMs(prev, deliveredAtMs)
  IN /\ LockIdResult(locks, <<"delivery_review_capture", f>>)
     /\ reviewRecords' =
          [reviewRecords EXCEPT ![f] =
             [present |-> TRUE, deliveredAtMs |-> next,
              reviewMessageSent |-> prev.reviewMessageSent,
              digitsOk |-> recipientOk \/ prev.digitsOk]]
     /\ timers' = [timers EXCEPT ![f] = next + getReviewDelayMs(env.REVIEW_DELAY_MS)]
     /\ UNCHANGED <<env, auditLost, disk, locks, deliveries, storeCreditRefunds, schedRunning,
                    sweep, tasks, other, now, sendLog, http, crashes>>

ClockAdvances(t) ==
  /\ t > now
  /\ now' = t
  /\ UNCHANGED <<env, auditLost, disk, locks, files, sched, tasks, other, sendLog, http, crashes>>

\* the entries of the script that pass `deliveredAtMs > now - minAgeMs`
OldEnough(recs, tm, age) ==
  {f \in Keys : /\ recs[f].present /\ ~recs[f].reviewMessageSent
                /\ ~(recs[f].deliveredAtMs > tm - age)}
RECURSIVE Sorted(_, _)
Sorted(recs, S) ==
  IF S = {} THEN <<>>
  ELSE LET f == CHOOSE x \in S : \A y \in S : y <= x
       IN InsertByDeliveredAt(recs, Sorted(recs, S \ {f}), f)

\* main() of sendOrderReviewRequests.js up to its loop
ReviewScriptScans ==
  /\ ops.review.pc = "idle"
  /\ ops' = [ops EXCEPT
               !.review.pc = "ready",
               !.review.records = reviewRecords,
               !.review.rest =
                  Sorted(reviewRecords,
                         OldEnough(reviewRecords, now,
                                   minAgeMs(env.REVIEW_DELAY_MS)))]
  /\ UNCHANGED <<env, auditLost, disk, locks, files, sched, tasks, processedOrders,
                 processedFulfillments, processedCancellations,
                 processedRefunds, checkouts, verified, observed, queue, now,
                 sendLog, http, crashes>>

DelayInit ==
  \E value \in EnvValues :
    InitState([allowUnverified |-> FALSE, schedulerEnabled |-> TRUE,
               reviewUrl |-> TRUE, REVIEW_DELAY_MS |-> value])

DelayNext ==
  \/ \E f \in Keys, d \in Instants, ok \in BOOLEAN :
       d <= now /\ DeliveryCaptured(f, d, ok)
  \/ \E t \in Instants : ClockAdvances(t)
  \/ ReviewScriptScans

SpecDelay == DelayInit /\ [][DelayNext]_vars

(* ======================================================================= *)
(* Properties of the signed webhook handlers (specification Spec)           *)
(* ======================================================================= *)
RECURSIVE OkCount(_)
OkCount(log) ==
  IF log = <<>> THEN 0
  ELSE (IF Head(log) = "ok" THEN 1 ELSE 0) + OkCount(Tail(log))

LockedCategories == {"delivery", "store_credit_refund"}
\* handlers of the category that are between their lockId and their unlockId
InCriticalSection(cat, k) ==
  IF cat = "delivery" THEN TaskCount(tasks, "delivery_send", k)
  ELSE TaskCount(tasks, "refund_lookup", k) + TaskCount(tasks, "refund_send", k)

\* C1: for the delivery and store-credit-refund categories, as long as the
\* process has not crashed, the send of one idempotency key succeeds at most
\* once; and when the first send of the key succeeded it is the only send of
\* the key: none follows it and none is in flight.
C1_AtMostOneSuccessfulSend ==
  crashes = 0 =>
    \A cat \in LockedCategories, k \in Keys :
      /\ OkCount(sendLog[cat][k]) <= 1
      /\ (sendLog[cat][k] # <<>> /\ Head(sendLog[cat][k]) = "ok")
           => (Len(sendLog[cat][k]) = 1 /\ InCriticalSection(cat, k) = 0)

\* three authenticated "delivered" deliveries of one fulfillment were taken
\* (each leaves a capture pending) and the only send of its key succeeded
C1_Witness ==
  /\ crashes = 0
  /\ \E k \in Keys :
       /\ TaskCount(tasks, "capture", k) = MaxRequests
       /\ sendLog["delivery"][k] = <<"ok">>
       /\ k \in deliveries

\* C7: for each lock key of the webhook handlers, at most one handler is
\* inside the critical section and it is there only while the key is in the
\* lock table; a step that leaves the key locked admits no further handler
\* (every lockId on a held key is refused), and a step that takes a free key
\* admits exactly one.
C7_HoldersBounded ==
  \A cat \in LockedCategories, k \in Keys :
    /\ InCriticalSection(cat, k) <= 1
    /\ InCriticalSection(cat, k) = 1 => <<cat, k>> \in locks
C7_LockStep ==
  \A cat \in LockedCategories, k \in Keys :
    /\ (<<cat, k>> \in locks /\ <<cat, k>> \in locks')
         => InCriticalSection(cat, k)' <= InCriticalSection(cat, k)
    /\ (<<cat, k>> \notin locks /\ <<cat, k>> \in locks')
         => InCriticalSection(cat, k)' = 1
C7_MutualExclusion == [] C7_HoldersBounded /\ [][C7_LockStep]_vars

\* a second delivery of the key arrived while the first one holds the lock:
\* two captures are pending, one handler is in the critical section
C7_Witness ==
  \E k \in Keys :
    /\ <<"delivery", k>> \in locks
    /\ TaskCount(tasks, "delivery_send", k) = 1
    /\ TaskCount(tasks, "capture", k) >= 2
    /\ sendLog["delivery"][k] = <<>>

\* C8: in the delivery and store-credit-refund ledgers a key that is marked
\* processed is still marked after every step, a restart and the marking of
\* other keys included.
C8_LedgerStep ==
  \A k \in Keys :
    /\ HasBeenNotified(deliveries, k) => HasBeenNotified(deliveries', k)
    /\ HasBeenNotified(storeCreditRefunds, k)
         => HasBeenNotified(storeCreditRefunds', k)
C8_LedgerMonotonic == [][C8_LedgerStep]_vars

\* after a restart the delivery ledger holds two keys and the refund ledger
\* one: marks survived the restart and the marking of another key
C8_Witness ==
  /\ crashes >= 1
  /\ tasks = EmptyBag
  /\ Cardinality(deliveries) >= 2
  /\ storeCreditRefunds # {}

\* the state a handler leaves alone when it routes nothing
Untouched ==
  UNCHANGED <<locks, deliveries, storeCreditRefunds, reviewRecords, timers,
              tasks, sendLog>>
\* the step handles an inbound request whose signature is missing or wrong
BadSignatureRequest == nreq' = nreq + 1 /\ ~resp'.signed

C10_Step ==
  (BadSignatureRequest /\ ~env.allowUnverified) =>
     /\ Untouched
     /\ resp'.status = IF resp'.topicOk /\ resp'.shopOk THEN 401 ELSE 200
C2_Original ==
  crashes = 0 =>
    \A cat \in {"order_confirmation", "fulfillment_creation"}, k \in Keys :
      OkCount(sendLog[cat][k]) <= 1

\* C9 (as stated): for the order-cancellation and refund-processed
\* categories the event of one key is sent at most once (sends made and
\* sends in flight), deliveries of the event after a restart included.
C9_Original ==
  \A cat \in {"order_cancellation", "refund_processed"}, k \in Keys :
    Len(sendLog[cat][k]) + TaskCount(tasks, cat, k) <= 1

\* C21 (as stated, in the form of a consequence): on the order-cancellation
\* and refund-processed paths a key whose send is not running is marked
\* processed, and so suppressed when delivered again, only if a send for it
\* has succeeded.
C21_Original ==
  /\ \A k \in processedCancellations :
       TaskCount(tasks, "order_cancellation", k) = 0
         => OkCount(sendLog["order_cancellation"][k]) >= 1
  /\ \A k \in processedRefunds :
       TaskCount(tasks, "refund_processed", k) = 0
         => OkCount(sendLog["refund_processed"][k]) >= 1

(* ======================================================================= *)
(* Properties of the debounce queue (SpecDebounce)                          *)
(* ======================================================================= *)
\* the evaluator runs in this step and finds the entry of K expired
ExpiresNow(k) ==
  /\ now' # now
  /\ checkouts[k] # NoCheckout
  /\ now' - checkouts[k].updatedAt >= DebounceDelay

\* C6 (as stated): when the delay has elapsed since the last of the updates
\* recorded for K, the evaluator invokes the verification callback once for K
\* with the payload of the last update and removes K from the queue; the
\* callback is invoked for K at no other step.
C6_OriginalStep ==
  \A k \in Keys :
    IF ExpiresNow(k)
      THEN /\ verified'[k] = Append(verified[k], observed[k].last)
           /\ checkouts'[k] = NoCheckout
      ELSE verified'[k] = verified[k]
C6_Step ==
  \A k \in Keys :
    IF ExpiresNow(k)
      THEN /\ verified'[k] =
                IF observed[k].last.email \/ observed[k].last.phoneDigits >= 10
                  THEN Append(verified[k], observed[k].last)
                  ELSE verified[k]
           /\ checkouts'[k] = NoCheckout
      ELSE verified'[k] = verified[k]
C38_Step ==
  \A k \in Keys :
    LET contact == \/ checkouts[k].checkout.email
                   \/ checkouts[k].checkout.phoneDigits >= 10
    IN /\ ExpiresNow(k) => checkouts'[k] = NoCheckout
       /\ verified'[k] # verified[k] => ExpiresNow(k) /\ contact
       /\ (ExpiresNow(k) /\ ~contact)
            => /\ verified'[k] = verified[k]
               /\ TaskCount(tasks', "orders_lookup", k)
                    = TaskCount(tasks, "orders_lookup", k)
       /\ (checkouts[k] = NoCheckout /\ observed'[k].n = observed[k].n)
            => checkouts'[k] = NoCheckout /\ verified'[k] = verified[k]
C31_Step ==
  \A k \in Keys :
    /\ observed'[k].n = observed[k].n + 1
         => /\ checkouts'[k] = [checkout |-> observed'[k].last, updatedAt |-> now]
            /\ \A j \in Keys \ {k} : checkouts'[j] = checkouts[j]
    /\ (checkouts[k] # NoCheckout /\ checkouts'[k] = NoCheckout)
         => now' - checkouts[k].updatedAt >= DebounceDelay

C31_UpdateRestartsQuietPeriod == [][C31_Step]_vars

\* a key updated a second time before its delay had passed is still queued on
\* a tick by which another key, updated once, has been consumed
C31_Witness ==
  \E k, j \in Keys :
    /\ k # j
    /\ observed[k].n = 2 /\ observed[j].n = 1
    /\ checkouts[k] # NoCheckout
    /\ checkouts[k].checkout = observed[k].last
    /\ now - checkouts[k].updatedAt < DebounceDelay
    /\ checkouts[j] = NoCheckout
    /\ crashes = 0

(* ======================================================================= *)
(* Properties of the review scheduler (SpecReview)                          *)
(* ======================================================================= *)
\* C3 (as stated): while the process has not crashed, whatever the
\* interleaving of timer firings, sweeps and captures of this and of other
\* fulfillments, the review message of a fulfillment is sent successfully at
\* most once.
C3_Original ==
  crashes = 0 => \A f \in Keys : OkCount(sendLog["review"][f]) <= 1

Min(a, b) == IF a < b THEN a ELSE b

\* C4 (as stated): when a capture finds a record of the fulfillment whose
\* timestamp differs from that of the event it captures, the timestamp it
\* stores is the earlier of the two and the timer it arms is due at that
\* timestamp plus the delay.
C4_OriginalStep ==
  \A t \in BagToSet(tasks) :
    LET prev == reviewRecords[t.key]
    IN (/\ t.kind = "capture"
        /\ tasks' = DropTask(tasks, t)
        /\ crashes' = crashes
        /\ prev.present
        /\ prev.deliveredAtMs # t.at)
       => /\ reviewRecords'[t.key].deliveredAtMs = Min(prev.deliveredAtMs, t.at)
          /\ timers'[t.key] = Min(prev.deliveredAtMs, t.at) + ReviewDelay
C4_Original == [][C4_OriginalStep]_vars

\* C5 (as stated, in the form of a consequence): after a restart, when no
\* sweep is running, nothing keeps the next sweep from attempting a persisted
\* record that is due, unsent and sendable: the lock of the sweep is free, and
\* the send lock of the record is free.
C5_Original ==
  \A f \in Keys :
    (/\ crashes >= 1
     /\ sweep = IdleSweep
     /\ ~schedRunning
     /\ TaskCount(tasks, "review_send", f) = 0
     /\ reviewRecords[f].present
     /\ ~reviewRecords[f].reviewMessageSent
     /\ reviewRecords[f].digitsOk
     /\ reviewRecords[f].deliveredAtMs + ReviewDelay <= now)
    => /\ <<"review_scheduler", 0>> \notin locks
       /\ <<"review_send", f>> \notin locks

\* the handler, timer, sweep or script that took the lock is still between
\* its lockId and its unlockId
Held(id) ==
  IF id[1] = "delivery" THEN TaskCount(tasks, "delivery_send", id[2]) > 0
  ELSE IF id[1] = "store_credit_refund"
    THEN TaskCount(tasks, "refund_lookup", id[2])
           + TaskCount(tasks, "refund_send", id[2]) > 0
  ELSE IF id[1] = "review_send"
    THEN \/ TaskCount(tasks, "review_send", id[2]) > 0
         \/ ops.review.pc = "sending" /\ ops.review.key = id[2]
  ELSE IF id[1] = "review_scheduler" THEN schedRunning
  ELSE FALSE

\* C32: a lock that is persisted when the process crashes is never reaped.
\* The restart leaves the lock map as it was; and a lock whose holder is gone
\* stays in the map after every step, and no handler, timer or sweep enters
\* the section it guards (its lockId returns false): neither a send for that
\* key nor, for the review_scheduler lock, a sweep starts.
C32_Step ==
  /\ crashes' = crashes + 1 => locks' = locks
  /\ \A id \in locks :
       ~Held(id) => id \in locks' /\ ~Held(id)'
C32_PersistedLockNeverReaped == [][C32_Step]_vars

\* after a crash during a review send started by the timer, a sweep of the
\* new process has come to the record, which is due, unsent and sendable, and
\* has passed it over: the lock is still there and nothing is in flight
C32_Witness ==
  \E f \in Keys :
    /\ crashes = 1
    /\ <<"review_send", f>> \in locks
    /\ TaskCount(tasks, "review_send", f) = 0
    /\ reviewRecords[f].present
    /\ ~reviewRecords[f].reviewMessageSent
    /\ reviewRecords[f].digitsOk
    /\ env.reviewUrl
    /\ reviewRecords[f].deliveredAtMs + ReviewDelay <= now
    /\ \A g \in Keys \ {f} : ~reviewRecords[g].present
    /\ schedRunning
    /\ sweep.state = "ready"
    /\ sweep.rest = <<>>

\* the ids the handlers, the timer and the sweep pass to lockId and unlockId
LockIds ==
  {<<c, k>> : c \in {"delivery", "store_credit_refund", "review_send",
                      "delivery_review_capture", "payment"}, k \in Keys}
    \cup {<<"review_scheduler", 0>>}

\* C33: unlockId(K) is idempotent and local. On every lock map the program
\* reaches and for every id K: with no lock for K the call leaves the map as
\* it is; a second call changes nothing after the first; every other id is
\* locked after the call exactly if it was before. And a step in which a lock
\* goes away takes away that lock only.
C33_Algebra ==
  \A id \in LockIds :
    LET once == UnlockIdLocks(locks, id)
    IN /\ id \notin locks => once = locks
       /\ id \notin once
       /\ UnlockIdLocks(once, id) = once
       /\ \A j \in LockIds \ {id} : j \in once <=> j \in locks
C33_Step ==
  \A id \in LockIds :
    (id \in locks /\ id \notin locks') => locks' = locks \ {id}
C33_UnlockIdempotentAndLocal == [] C33_Algebra /\ [][C33_Step]_vars

\* the delivery handler of one key has released its lock after its send while
\* the handlers of the other key still hold the delivery and the refund lock
C33_Witness ==
  \E k, j \in Keys :
    /\ k # j
    /\ sendLog["delivery"][k] # <<>>
    /\ <<"delivery", k>> \notin locks
    /\ TaskCount(tasks, "delivery_send", k) = 0
    /\ <<"delivery", j>> \in locks
    /\ <<"store_credit_refund", j>> \in locks

\* the processed status or the lock of the key changes in the category
DeliveryChanges(k) ==
  \/ (k \in deliveries') # (k \in deliveries)
  \/ (<<"delivery", k>> \in locks') # (<<"delivery", k>> \in locks)
RefundChanges(k) ==
  \/ (k \in storeCreditRefunds') # (k \in storeCreditRefunds)
  \/ (<<"store_credit_refund", k>> \in locks')
       # (<<"store_credit_refund", k>> \in locks)

\* C34: the delivery and the store-credit-refund category are independent for
\* one and the same key K. As long as the process has not crashed, K's lock
\* of a category is taken exactly while a handler of that category is in its
\* critical section for K, and K is marked processed in a category exactly if
\* a send of that category for K succeeded, whatever the other category holds
\* or has marked; and no step that marks or locks or unlocks K in one
\* category changes K's mark or lock in the other.
C34_OwnCategoryOnly ==
  crashes = 0 =>
    \A k \in Keys :
      /\ \A cat \in LockedCategories :
           <<cat, k>> \in locks <=> InCriticalSection(cat, k) > 0
      /\ k \in deliveries <=> OkCount(sendLog["delivery"][k]) > 0
      /\ k \in storeCreditRefunds
           <=> OkCount(sendLog["store_credit_refund"][k]) > 0
C34_Step == \A k \in Keys : ~(DeliveryChanges(k) /\ RefundChanges(k))
C34_CategoriesIndependent == [] C34_OwnCategoryOnly /\ [][C34_Step]_vars

\* the delivery of a key has been notified and marked, and a refund of the
\* same key, not marked, holds the refund lock with its send in flight
C34_Witness ==
  \E k \in Keys :
    /\ k \in deliveries
    /\ <<"delivery", k>> \notin locks
    /\ k \notin storeCreditRefunds
    /\ <<"store_credit_refund", k>> \in locks
    /\ TaskCount(tasks, "refund_send", k) = 1
    /\ crashes = 0

(* ======================================================================= *)
(* Persisted files                                                          *)
(* ======================================================================= *)
\* C36: a loader never raises to its caller; called on a file that is missing
\* or was left incomplete by an interrupted write it returns the empty
\* default (empty set, empty map); called after a completed save it returns
\* the value that was saved.
C36_LoadNeverRaises ==
  disk.loaded.called =>
    /\ ~disk.loaded.raised
    /\ disk.loaded.value = IF disk.intact THEN disk.saved
                           ELSE Default(disk.dataset)

\* a lock map of two entries was saved, a later write of it was cut short
\* after its first entry, and loadLocks has been called on what is left
C36_Witness ==
  /\ disk.dataset = "locks"
  /\ DOMAIN disk.saved = Keys
  /\ ~disk.intact
  /\ Len(disk.file.text) = 2
  /\ disk.loaded.called
  /\ disk.loaded.value = <<>>

(* ======================================================================= *)
(* The audit logs                                                           *)
(* ======================================================================= *)
\* C35: a failure to append to the audit log never aborts the primary path.
\* In every step of the delivery path, whether the entry it appends is written
\* or lost: a request is answered, and one with a bad signature is answered
\* 401 and routed nowhere; the continuation of a delivery send releases the
\* lock of its key and marks the key exactly if the send succeeded; a capture
\* stores the review record, arms its timer and releases its lock.
C35_Step ==
  /\ nreq' = nreq + 1 =>
       /\ resp'.status # 0
       /\ (resp'.topicOk /\ resp'.shopOk /\ ~resp'.signed
              /\ ~env.allowUnverified)
            => resp'.status = 401 /\ UNCHANGED <<locks, tasks>>
  /\ \A k \in Keys :
       /\ TaskCount(tasks', "delivery_send", k)
             < TaskCount(tasks, "delivery_send", k)
            => /\ <<"delivery", k>> \notin locks'
               /\ k \in deliveries' <=>
                    \/ k \in deliveries
                    \/ sendLog'["delivery"][k]
                         = Append(sendLog["delivery"][k], "ok")
       /\ TaskCount(tasks', "capture", k) < TaskCount(tasks, "capture", k)
            => /\ reviewRecords'[k].present
               /\ timers'[k] = reviewRecords'[k].deliveredAtMs + ReviewDelay
               /\ <<"delivery_review_capture", k>> \notin locks'
C35_AppendFailureHarmless == [][C35_Step]_vars

\* one delivered event was handled and both entries appended for it, by the
\* capture and after the send, were lost: the key is marked, its review
\* record is stored, its timer is armed and no lock is left
C35_Witness ==
  \E k \in Keys :
    /\ nreq = 1
    /\ auditLost = 2
    /\ sendLog["delivery"][k] = <<"ok">>
    /\ k \in deliveries
    /\ reviewRecords[k].present
    /\ timers[k] # NoTimer
    /\ locks = {}
    /\ tasks = EmptyBag

\* C37: an authenticated fulfillments/update request whose shipment status
\* is not "delivered" is acknowledged with 200 and changes nothing: no ledger,
\* review record, timer, lock or log entry is written and nothing is sent or
\* left in flight.
C37_Step ==
  \A topic \in {"", "fulfillments/update"}, shop \in {"", SHOPIFY_DOMAIN},
     body \in FulfillmentBodies, appendFails \in BOOLEAN :
    (/\ body.shipment_status # "delivered"
     /\ FulfillmentsUpdateLogged(topic, shop, Digest(Secret, body), body,
                                 appendFails))
    => /\ resp'.status = 200
       /\ UNCHANGED <<locks, files, sched, tasks, other, auditLost, sendLog,
                      now, crashes>>
C37_NonDeliveredIgnored == [][C37_Step]_vars

\* the one request handled so far was authenticated and acknowledged and has
\* left no trace: it carried a status other than delivered
C37_Witness ==
  /\ nreq = 1
  /\ resp.status = 200 /\ resp.signed /\ resp.topicOk /\ resp.shopOk
  /\ tasks = EmptyBag
  /\ locks = {}
  /\ \A k \in Keys :
       /\ ~reviewRecords[k].present
       /\ timers[k] = NoTimer
       /\ sendLog["delivery"][k] = <<>>

\* C40: at most one sweep runs at a time, and a sweep that ends leaves the
\* scheduler free. The running flag is set exactly while a sweep has started
\* and not ended, and as long as the process has not crashed the
\* review_scheduler lock is held exactly then; at most one send started by a
\* sweep is in flight; while a sweep awaits its send no step starts a scan:
\* the list of the sweep stays as it is; and the step that ends a sweep,
\* whether its attempts succeeded or failed, resets the flag and releases the
\* lock.
C40_OneSweep ==
  /\ schedRunning <=> sweep # IdleSweep
  /\ crashes = 0 => (<<"review_scheduler", 0>> \in locks <=> schedRunning)
  /\ Cardinality({t \in BagToSet(tasks) : t.bySweep}) <= 1
  /\ \A t \in BagToSet(tasks) : t.bySweep => CopiesIn(t, tasks) = 1
C40_Step ==
  /\ (sweep.state = "waiting" /\ crashes' = crashes)
       => /\ sweep'.rest = sweep.rest
          /\ sweep'.state \in {"waiting", "ready"}
          /\ schedRunning'
  /\ (sweep # IdleSweep /\ sweep' = IdleSweep /\ crashes' = crashes)
       => ~schedRunning' /\ <<"review_scheduler", 0>> \notin locks'
C40_SweepsExclusive == [] C40_OneSweep /\ [][C40_Step]_vars

\* the only record was attempted twice, each time by a sweep (its timer has
\* not fired), and the first attempt failed: the first sweep ended, a later
\* tick ran the second, and the scheduler is free again
C40_Witness ==
  \E f \in Keys :
    /\ nreq = 1
    /\ crashes = 0
    /\ timers[f] # NoTimer
    /\ Len(sendLog["review"][f]) = 2
    /\ sendLog["review"][f][1] = "fail"
    /\ sweep = IdleSweep
    /\ ~schedRunning
    /\ <<"review_scheduler", 0>> \notin locks

(* ======================================================================= *)
(* Authentication and topic classification                                  *)
(* ======================================================================= *)
\* C11 (as stated, in the form of a consequence): on the order-confirmation,
\* fulfillment-creation, order-cancellation and refund-processed endpoints a
\* request without a valid signature reaches no dedupe set and starts no
\* collaborator send.
C11_Original ==
  [][(nreq' = nreq + 1 /\ ~resp'.signed)
       => UNCHANGED <<tasks, processedOrders, processedFulfillments,
                      processedCancellations, processedRefunds, checkouts,
                      sendLog>>]_vars

\* C12: on fulfillments/update and refunds/create a request whose topic
\* header names another topic is answered 200 and is not routed: it takes no
\* lock, writes no ledger entry or review record, arms no timer, starts no
\* task and sends nothing, whatever its signature and its payload.
C12_Step ==
  (nreq' = nreq + 1 /\ ~resp'.topicOk) => (resp'.status = 200 /\ Untouched)
C12_TopicMismatchIgnored == [][C12_Step]_vars

\* a correctly signed request with another topic was acknowledged while a
\* delivery was in its critical section
C12_Witness ==
  /\ resp = [status |-> 200, signed |-> TRUE, topicOk |-> FALSE, shopOk |-> TRUE]
  /\ KindCount(tasks, "delivery_send") = 1

(* ======================================================================= *)
(* Properties of checkout verification (SpecVerify)                         *)
(* ======================================================================= *)
\* verifyCheckout resumes in this step for cart token k with an answer that
\* holds an order of the checkout (same cart token or same checkout token)
FoundConverted(k) ==
  /\ TaskCount(tasks, "orders_same_token", k) > 0
  /\ TaskCount(tasks', "orders_same_token", k)
       = TaskCount(tasks, "orders_same_token", k) - 1
  /\ crashes' = crashes

\* C13: when verifyCheckout finds an order with the cart token or the
\* checkout token of the checkout, the verification ends there: nothing is
\* enqueued or sent, no payment is looked up, and no lock, processed record or
\* other state is written; only the finished continuation goes away.
C13_Step ==
  \A k \in Keys :
    FoundConverted(k) =>
      /\ tasks' = DropTask(tasks, SimpleTask("orders_same_token", k))
      /\ UNCHANGED <<locks, files, other, sendLog>>
C13_ConvertedNotEnqueued == [][C13_Step]_vars

\* the orders of a verification in progress came back with an order of the
\* checkout while the message of another cart is being sent: the verification
\* is about to end there
C13_Witness ==
  \E k \in Keys :
    /\ TaskCount(tasks, "orders_same_token", k) = 1
    /\ Len(verified[k]) = 1
    /\ isSending
    /\ queuedAbandonedCartTokens = Keys \ {k}
    /\ crashes = 0

\* the cart tokens of the items waiting in messageQueue
Waiting(mq) == {mq[i] : i \in 1..Len(mq)}
\* a send of the abandoned-checkout message for K starts in this step
SendStarts(k) ==
  TaskCount(tasks', "abandoned_checkout", k)
    > TaskCount(tasks, "abandoned_checkout", k)

\* C39, serial and deduplicated: at most one abandoned-checkout send is in
\* flight, and then isSending is set; a cart token is in
\* queuedAbandonedCartTokens exactly if an item for it waits in messageQueue
\* or is being sent; and no token waits twice, or waits while it is being sent.
C39_SerialAndDeduplicated ==
  /\ KindCount(tasks, "abandoned_checkout") <= 1
  /\ KindCount(tasks, "abandoned_checkout") = 1 => isSending
  /\ \A k \in Keys :
       /\ k \in queuedAbandonedCartTokens
            <=> \/ k \in Waiting(messageQueue)
                \/ TaskCount(tasks, "abandoned_checkout", k) = 1
       /\ Cardinality({i \in 1..Len(messageQueue) : messageQueue[i] = k})
             + TaskCount(tasks, "abandoned_checkout", k) <= 1
\* C39, in enqueue order: the item whose send starts is the one at the head of
\* the queue (the item just enqueued when nothing waited), and the items
\* behind it keep their order.
C39_FifoStep ==
  \A k \in Keys :
    SendStarts(k) =>
      IF messageQueue = <<>> THEN messageQueue' = <<>>
      ELSE /\ k = Head(messageQueue)
           /\ \/ messageQueue' = Tail(messageQueue)
              \/ \E j \in Keys : messageQueue' = Tail(Append(messageQueue, j))
\* C39, every enqueued item is taken: an item that waits in the queue keeps
\* waiting or is taken for sending; it is never dropped.
C39_TakenStep ==
  \A k \in Waiting(messageQueue) :
    k \in Waiting(messageQueue') \/ SendStarts(k)
\* C39 (as stated): the abandoned-checkout send queue is serial and
\* deduplicated, its items are sent in enqueue order, and every enqueued item
\* is taken for sending (in the form of a consequence: no step drops an item
\* that waits in the queue).
C39_Original ==
  /\ [] C39_SerialAndDeduplicated
  /\ [][C39_FifoStep /\ C39_TakenStep]_vars
\* the part of C39 that holds: serial, deduplicated, in enqueue order
C39_SerialInOrder == [] C39_SerialAndDeduplicated /\ [][C39_FifoStep]_vars

\* C23 (as stated): while the process has not exited, in a state with no
\* handler in flight (no suspended continuation, nothing queued or being
\* sent) the lock table is empty.
C23_Original ==
  (crashes = 0 /\ tasks = EmptyBag /\ messageQueue = <<>> /\ ~isSending)
    => locks = {}

\* C18 (as stated, in the form of a consequence): no failure while handling an
\* event or a tick ends the process; in these behaviours nothing else stops
\* it, so it is never restarted.
C18_Original == crashes = 0

(* ----------------- review scheduler (SpecReview), continued ------------- *)
\* C19 (as stated): the continuation of a capture or of a review send for one
\* fulfillment leaves the persisted review record of every other fulfillment
\* as it is.
C19_OriginalStep ==
  \A t \in BagToSet(tasks) :
    (t.kind \in {"capture", "review_send"} /\ tasks' = DropTask(tasks, t))
      => \A k \in Keys \ {t.key} : reviewRecords'[k] = reviewRecords[k]

C19_Original == [][C19_OriginalStep]_vars

\* C22: a review send that fails leaves the records as they are (the flag
\* stays false), and one that succeeds leaves the flag of its fulfillment
\* true; and while the sweeps are enabled, a fulfillment whose last attempt
\* failed is attempted again, as long as its record stays present, unsent and
\* due and the attempts explored are not used up.
C22_Step ==
  \A t \in BagToSet(tasks) :
    (t.kind = "review_send" /\ tasks' = DropTask(tasks, t)
       /\ Len(sendLog'["review"][t.key]) = Len(sendLog["review"][t.key]) + 1)
      => LET log == sendLog'["review"][t.key]
         IN IF log[Len(log)] = "ok"
              THEN reviewRecords'[t.key].reviewMessageSent
              ELSE reviewRecords' = reviewRecords

LastFailed(f, n) ==
  /\ env.schedulerEnabled
  /\ Len(sendLog["review"][f]) = n
  /\ sendLog["review"][f][n] = "fail"

AttemptedAgain(f, n) ==
  \/ Len(sendLog["review"][f]) + TaskCount(tasks, "review_send", f) > n
  \/ ~reviewRecords[f].present
  \/ reviewRecords[f].reviewMessageSent
  \/ ~IsDue(reviewRecords[f], now)
  \/ ReviewSendsIssued >= MaxSends

C22_FailedSendRetried ==
  /\ [][C22_Step]_vars
  /\ \A f \in Keys, n \in 1..MaxSends : LastFailed(f, n) ~> AttemptedAgain(f, n)

\* after a single delivered event the send of its fulfillment has failed, a
\* sweep has attempted it again and that send has succeeded
C22_Witness ==
  \E f \in Keys :
    /\ nreq = 1
    /\ sendLog["review"][f] = <<"fail", "ok">>
    /\ reviewRecords[f].reviewMessageSent
    /\ timers[f] = NoTimer

\* C27: in the step in which a review send of a fulfillment is issued, by its
\* timer or by a sweep, the record of the fulfillment is in the file and the
\* time is at or after its deliveredAtMs plus the configured delay.
C27_Step ==
  \A f \in Keys :
    TaskCount(tasks', "review_send", f) > TaskCount(tasks, "review_send", f)
      => /\ reviewRecords[f].present
         /\ now >= reviewRecords[f].deliveredAtMs + ReviewDelay

C27_NoSendBeforeDue == [][C27_Step]_vars

\* a sweep has issued the send of a fulfillment that is due while the record
\* of another one, not yet due, is left alone
C27_Witness ==
  \E t \in BagToSet(tasks), f2 \in Keys :
    /\ t.kind = "review_send" /\ t.bySweep
    /\ now >= t.rec.deliveredAtMs + ReviewDelay
    /\ f2 # t.key
    /\ reviewRecords[f2].present
    /\ now < reviewRecords[f2].deliveredAtMs + ReviewDelay
    /\ sendLog["review"][f2] = <<>>
    /\ TaskCount(tasks, "review_send", f2) = 0
    /\ sweep.state = "waiting" /\ sweep.rest = <<>>

\* C28: at most one review send of a fulfillment is in flight at any time,
\* whether its timer or a sweep started it; a send is issued only in a step
\* that finds the review_send lock of the fulfillment free and the record not
\* marked sent, and it holds the lock from then on.
C28_OneInFlight ==
  \A f \in Keys :
    /\ TaskCount(tasks, "review_send", f) <= 1
    /\ TaskCount(tasks, "review_send", f) = 1 => <<"review_send", f>> \in locks

C28_Step ==
  \A f \in Keys :
    TaskCount(tasks', "review_send", f) > TaskCount(tasks, "review_send", f)
      => /\ <<"review_send", f>> \notin locks
         /\ ~reviewRecords[f].reviewMessageSent

C28_TimerAndSweepExcluded == [] C28_OneInFlight /\ [][C28_Step]_vars

\* the send started by the timer of the only fulfillment recorded is in
\* flight, and a sweep that found this fulfillment due has gone past it
\* without sending
C28_Witness ==
  \E t \in BagToSet(tasks) :
    /\ t.kind = "review_send" /\ ~t.bySweep
    /\ KindCount(tasks, "review_send") = 1
    /\ \A f \in Keys : reviewRecords[f].present <=> f = t.key
    /\ ~reviewRecords[t.key].reviewMessageSent
    /\ IsDue(reviewRecords[t.key], now)
    /\ schedRunning /\ sweep = [state |-> "ready", rest |-> <<>>]
    /\ sendLog["review"][t.key] = <<>>

\* C29 (as stated): the continuation of a capture does not perform its
\* load-modify-save of the review records while a review send of the same
\* fulfillment is between its load and its save.
C29_OriginalStep ==
  \A t \in BagToSet(tasks) :
    (/\ t.kind = "capture"
     /\ tasks' = DropTask(tasks, t)
     /\ crashes' = crashes
     /\ <<"delivery_review_capture", t.key>> \notin locks)
      => TaskCount(tasks, "review_send", t.key) = 0

C29_Original == [][C29_OriginalStep]_vars

\* C30 (as stated): no step removes a review record from the file, and no
\* step turns a reviewMessageSent that is true back to false.
C30_OriginalStep ==
  \A f \in Keys :
    /\ reviewRecords[f].present => reviewRecords'[f].present
    /\ reviewRecords[f].reviewMessageSent => reviewRecords'[f].reviewMessageSent

C30_Original == [][C30_OriginalStep]_vars

\* attempts recorded in a review log as aborted before the send
AbortedCount(log) == Cardinality({i \in DOMAIN log : log[i] = "aborted"})

\* C24 (as stated): while a single delivered event has arrived, a review send
\* that aborted because the recipient phone or the button URL is missing is
\* not attempted a second time by the sweeps.
C24_Original ==
  nreq <= 1 => \A f \in Keys : AbortedCount(sendLog["review"][f]) <= 1

\* C16 (as stated): with REVIEW_SCHEDULER_ENABLED=false the server issues no
\* review send, whatever events arrive and however much time passes.
C16_Original ==
  ~env.schedulerEnabled =>
    /\ KindCount(tasks, "review_send") = 0
    /\ \A k \in Keys : \A i \in DOMAIN sendLog["review"][k] :
         sendLog["review"][k][i] = "aborted"

(* ======================================================================= *)
(* Properties of the ops scripts beside the server                          *)
(* ======================================================================= *)
\* C14 (as stated): with the manual trigger run without --force, the webhook
\* handler and the manual trigger never both send the delivered message of a
\* fulfillment successfully, and the manual trigger is not sending for a key
\* while the delivery lock of that key is held.
C14_Original ==
  ~ops.delivered.force =>
    /\ \A k \in Keys : OkCount(sendLog["delivery"][k]) <= 1
    /\ ops.delivered.pc = "sending"
         => <<"delivery", ops.delivered.key>> \notin locks

\* C15 (as stated): a write of the review re-scan script never removes a
\* review record that is in the file and never turns a reviewMessageSent
\* that is true back to false.
C15_OriginalStep ==
  (ops.review.pc = "sending" /\ ops'.review.pc = "ready") =>
    \A k \in Keys :
      /\ reviewRecords[k].present => reviewRecords'[k].present
      /\ reviewRecords[k].reviewMessageSent => reviewRecords'[k].reviewMessageSent

C15_Original == [][C15_OriginalStep]_vars

\* C17 (as stated): with REVIEW_DELAY_MS unset the server schedules a review
\* send one minute after the delivery, and the script scans exactly the
\* records that are old enough under the server's default.
C17_OriginalStep ==
  env.REVIEW_DELAY_MS = Unset =>
    /\ \A f \in Keys :
         timers'[f] # timers[f]
           => timers'[f] = reviewRecords'[f].deliveredAtMs + ONE_MINUTE_MS
    /\ (ops.review.pc = "idle" /\ ops'.review.pc = "ready")
         => {ops'.review.rest[i] : i \in 1..Len(ops'.review.rest)}
              = OldEnough(reviewRecords, now, getReviewDelayMs(env.REVIEW_DELAY_MS))

C17_Original == [][C17_OriginalStep]_vars

(* ------------- signed webhook handlers (Spec), continued ---------------- *)
\* C20: a key enters the delivery ledger or the store-credit-refund ledger
\* only in the step in which the send for that key returns successfully; a
\* step in which the send throws, the phone is invalid or the order lookup
\* fails adds no key.
C20_Step ==
  \A k \in Keys :
    /\ (k \notin deliveries /\ k \in deliveries')
         => sendLog'["delivery"][k] = Append(sendLog["delivery"][k], "ok")
    /\ (k \notin storeCreditRefunds /\ k \in storeCreditRefunds')
         => sendLog'["store_credit_refund"][k]
              = Append(sendLog["store_credit_refund"][k], "ok")

C20_MarkedAfterSuccessfulSend == [][C20_Step]_vars

\* one key is in the delivery ledger after its send returned, another is
\* absent from the store-credit-refund ledger after its send threw
C20_Witness ==
  \E k1, k2 \in Keys :
    /\ k1 \in deliveries
    /\ OkCount(sendLog["delivery"][k1]) = 1
    /\ sendLog["store_credit_refund"][k2] = <<"fail">>
    /\ k2 \notin storeCreditRefunds
    /\ <<"store_credit_refund", k2>> \notin locks

\* C25: a fulfillments/update or refunds/create request that is routed (it
\* takes a lock or starts a lookup, a capture or a send) has been answered
\* 200 by the end of the step that routes it, every authenticated request
\* with the expected topic and shop is answered 200, and no later step of its
\* handling (the send returning or throwing) changes the answer.
C25_Step ==
  /\ (nreq' = nreq + 1 /\ (locks' # locks \/ tasks' # tasks))
       => resp'.status = 200
  /\ (nreq' = nreq + 1 /\ resp'.signed /\ resp'.topicOk /\ resp'.shopOk)
       => resp'.status = 200
  /\ nreq' = nreq => resp' = resp

C25_AckBeforeRouting == [][C25_Step]_vars

\* the one request received was authenticated and acknowledged, and its send
\* has failed since
C25_Witness ==
  /\ nreq = 1
  /\ resp.status = 200 /\ resp.signed
  /\ \E k \in Keys : sendLog["delivery"][k] = <<"fail">>
  /\ locks = {}

\* C26 (as stated): unless ALLOW_UNVERIFIED_SHOPIFY_WEBHOOKS is "true", no
\* success acknowledgment is sent for a request whose signature has not been
\* verified: a request with a missing or wrong signature is not answered 200,
\* whatever its topic and shop headers.
C26_OriginalStep ==
  (BadSignatureRequest /\ ~env.allowUnverified) => resp'.status # 200

C26_Original == [][C26_OriginalStep]_vars

============================================================================
